---- MODULE Spec2Model ----
(***************************************************************************)
(* Verification model of the live-audio interview backend.                 *)
(*                                                                         *)
(*   Part A  SimpleSupabaseBackend (src/backend/simple_supabase_backend.py)*)
(*           session tables, upstream connections, receive tasks, the      *)
(*           transcript aggregator (add_buffered_transcript) and           *)
(*           close_session.                                                *)
(*   Part B  SessionManager, LiveAudioBackend and WebSocketAudioLoop       *)
(*           (src/backend/session_manager.py, src/backend/main.py): the    *)
(*           relay's life cycle, its inbound and outbound audio, and the   *)
(*           audio forwarding of src/backend/websocket_server.py.          *)
(*                                                                         *)
(* Python dictionaries are functions whose DOMAIN is the set of keys.      *)
(* Text is a sequence of one-character strings.  Every coroutine is cut    *)
(* into atomic steps at the awaits that really suspend (network I/O,       *)
(* awaiting another task, sleeping).                                       *)
(***************************************************************************)
EXTENDS Integers, Sequences, FiniteSets, TLC

(***************************************************************************)
(* Dictionary helpers                                                      *)
(***************************************************************************)
DictSet(d, k, v) == [x \in (DOMAIN d) \cup {k} |-> IF x = k THEN v ELSE d[x]]

DictDel(d, k) == [x \in (DOMAIN d) \ {k} |-> d[x]]

EmptyDict == [x \in {} |-> 0]

(***************************************************************************)
(* Text: str.strip(), str.endswith, the "in" test                          *)
(***************************************************************************)
Whitespace == {" "}

RECURSIVE LStrip(_)
LStrip(s) == IF s # <<>> /\ Head(s) \in Whitespace THEN LStrip(Tail(s)) ELSE s

RECURSIVE RStrip(_)
RStrip(s) ==
    IF s # <<>> /\ s[Len(s)] \in Whitespace
    THEN RStrip(SubSeq(s, 1, Len(s) - 1))
    ELSE s

Strip(s) == RStrip(LStrip(s))

EndsWith(s, c) == s # <<>> /\ s[Len(s)] = c

ContainsChar(s, c) == \E i \in 1..Len(s) : s[i] = c

\* c followed by a space somewhere in s  ('. ' in s)
ContainsThenSpace(s, c) == \E i \in 1..(Len(s) - 1) : s[i] = c /\ s[i + 1] = " "

SentenceEnds == {".", "!", "?"}

(***************************************************************************)
(* Bounds and input sets                                                   *)
(***************************************************************************)
\* upstream connections the simple backend may open in one run
MaxUpstream == 2

\* transcript fragments upstream may deliver in one run
MaxFragments == 3

\* audio responses the model lets wait in one session's audio_out_queue
MaxQueuedAudio == 2

\* completed close_session calls the history counts per session id, at most
MaxClosesCounted == 2

SessionIds == {"s1", "s2"}

Speakers == {"assistant", "user"}

\* websocket handler coroutines of the simple backend and the id in their URL:
\* h1 serves session s1 in every run; h2 serves s2 and d1 is the coroutine of a
\* DELETE /api/conversations/s1 request, in the runs that have them
Handlers == {"h1"}

AllHandlers == Handlers \cup {"h2", "d1"}

HandlerSession(h) == IF h = "h2" THEN "s2" ELSE "s1"

FragITh == <<"I", " ", "t", "h">>

FragInkThe == <<"i", "n", "k", " ", "t", "h", "e">>

FragAnswer == <<" ", "a", "n", "s", "w", "e", "r", " ", "i", "s", " ", "4", ".">>

FragUm == <<"u", "m">>

FragHello == <<"h", "e", "l", "l", "o">>

FragBlank == <<" ">>

Fragments == {FragITh, FragInkThe, FragAnswer, FragUm, FragHello, FragBlank}

\* the fields of an upstream response that carry transcript text
\* (receive_audio_from_gemini), with the speaker and provider each is filed under
Kinds == {"output_transcription", "input_transcription"}

KindSpeaker(k) == IF k = "input_transcription" THEN "user" ELSE "assistant"

KindProvider(k) ==
    IF k = "input_transcription" THEN "gemini_live_input_transcription"
    ELSE "gemini_live_output_transcription"

(***************************************************************************)
(* Program constants of add_buffered_transcript                            *)
(***************************************************************************)
NoiseLength == 2

LengthCeiling == 300

MinMeaningfulLength == 8

(***************************************************************************)
(* State                                                                   *)
(***************************************************************************)
VARIABLES
    \* ---- SimpleSupabaseBackend ----
    sb_active_sessions,        \* keys of self.active_sessions
    gemini_sessions,           \* session id -> upstream connection (context manager)
    sb_upstream,               \* per opened upstream connection: "open" | "gone" | "closed"
    audio_out_queues,          \* session id -> queue object
    sb_queues,                 \* per queue object: the items in it
    send_tasks,                \* per send_audio_to_websocket task: "running" | "done"; task i reads queue i
    audio_streaming_tasks,     \* session id -> receive task
    recv_tasks,                \* per receive task: [session_id, st]; task i reads upstream i
    transcript_buffers,        \* session id -> speaker -> accumulated text
    transcript_timers,         \* session id -> speaker -> [timer: task id, 0 for None;
                               \*   last_update: the delivery that wrote it, for datetime.now()]
    timer_tasks,               \* sleeping save_buffered tasks
    timer_seq,                 \* timer tasks created so far
    transcripts,               \* rows handed to add_transcript (the transcript sink)
    sb_websocket_connections,  \* keys of self.websocket_connections
    hpc,                       \* per handler coroutine: where it is suspended
    hctx,                      \* per handler: close_session called from "msg" | "finally"
    h_cm,                      \* per handler: context manager held across the __aexit__ await
    \* ---- history ----
    raw_buffers,               \* like transcript_buffers, the fragments as they arrived
    nfrag,                     \* fragments delivered so far
    sb_created,                \* session ids for which create_session ever ran
    sb_closed                  \* session id -> close_session calls completed since the last create

sbVars == <<sb_active_sessions, gemini_sessions, sb_upstream, audio_out_queues,
            sb_queues, send_tasks, audio_streaming_tasks, recv_tasks, transcript_buffers, transcript_timers,
            timer_tasks, timer_seq, transcripts, sb_websocket_connections, hpc, hctx,
            h_cm, raw_buffers, nfrag, sb_created, sb_closed>>

VARIABLES
    \* ---- SessionManager and LiveAudioBackend (main.py) ----
    sm_active_sessions,        \* session_manager.active_sessions: session id -> SessionInfo
    session_locks,             \* session_manager.session_locks: session id -> Lock object
    cleanup_due,               \* when the cleanup task's sleep ends; NoCleanup before it is started
    now,                       \* datetime.now(), in seconds since the server started
    swept,                     \* session ids the cleanup task has removed so far
    recv_pc,                   \* _receive_audio: "receiving" | "sleeping" after a failed receive |
                               \*   "again": iterating receive() once more after a failure
    websocket_connections,     \* session id -> connection
    audio_loops,               \* session id -> WebSocketAudioLoop object
    loops,                     \* per WebSocketAudioLoop object ever constructed:
                               \*   [session_id, websocket, running, live_session_manager, tasks]
    cpc,                       \* per client connection: where websocket_endpoint is suspended
    c_loop,                    \* per connection: the audio_loop its handler holds across awaits
    c_ctx,                     \* per connection: stop() called from "msg" | "finally"
    c_last,                    \* per connection: its last connect / create / start request and the reply to it
    \* ---- inbound half of a running loop ----
    out_queue,                 \* self.out_queue: the batches waiting for _send_realtime
    sr_pc,                     \* _send_realtime: "get" | "send"
    sr_msg,                    \* _send_realtime: the batch being chunked
    sr_i,                      \* _send_realtime: offset i of the chunk in flight
    upstream_sent,             \* audio messages _send_realtime delivered upstream
    standalone_session,        \* websocket_server.py: self.session, "none" | "open" | "closed"
    standalone,                \* websocket_server.py, one client of handle_client:
                               \*   pc       where handle_client is suspended
                               \*   client   the websocket: "none" | "open" | "closed_ok" | "closed_error"
                               \*   handler  the message_handler task
                               \*   recv     the receive_audio_from_gemini task
                               \*   send     the send_audio_to_websocket task
                               \*   queue    items in audio_out_queue
    \* ---- outbound half of a running loop ----
    audio_in_queue,            \* self.audio_in_queue
    fe_pc,                     \* _send_audio_to_frontend: "get" | "send" | "flush"
    audio_buffer,              \* _send_audio_to_frontend: local audio_buffer
    playback_chunk,            \* _send_audio_to_frontend: chunk handed to websocket.send_text
    client_msgs,               \* audio_chunk messages delivered to the client
    \* ---- history ----
    disc_streaming,            \* loops whose client disconnected while they were streaming
    accepted,                  \* batches send_audio put on out_queue
    send_failed,               \* some upstream send raised
    direct_last,               \* the last audio message a direct-forwarding path sent upstream
    epoch,                     \* Interrupted events received from upstream so far
    nout                       \* audio responses received from upstream so far

relState == <<sm_active_sessions, session_locks, cleanup_due, websocket_connections,
              audio_loops, loops, cpc, c_loop, c_ctx, disc_streaming>>

relVars == <<relState, c_last>>

inbVars == <<out_queue, sr_pc, sr_msg, sr_i, upstream_sent, standalone_session, accepted,
             send_failed, direct_last>>

outVars == <<audio_in_queue, fe_pc, audio_buffer, playback_chunk, client_msgs, epoch, nout>>

clockVars == <<now, swept>>

mainVars == <<relVars, inbVars, outVars, clockVars, recv_pc, standalone>>

vars == <<sbVars, mainVars>>

SbInit ==
    /\ sb_active_sessions = {}
    /\ gemini_sessions = EmptyDict
    /\ sb_upstream = <<>>
    /\ audio_out_queues = EmptyDict
    /\ sb_queues = <<>>
    /\ send_tasks = <<>>
    /\ audio_streaming_tasks = EmptyDict
    /\ recv_tasks = <<>>
    /\ transcript_buffers = EmptyDict
    /\ transcript_timers = EmptyDict
    /\ timer_tasks = {}
    /\ timer_seq = 0
    /\ transcripts = <<>>
    /\ sb_websocket_connections = {}
    /\ hpc = [h \in AllHandlers |-> "init"]
    /\ hctx = [h \in AllHandlers |-> "msg"]
    /\ h_cm = [h \in AllHandlers |-> 0]
    /\ raw_buffers = EmptyDict
    /\ nfrag = 0
    /\ sb_created = {}
    /\ sb_closed = [s \in SessionIds |-> 0]

(***************************************************************************)
(* main.py: constants and the state after LiveAudioBackend is constructed  *)
(***************************************************************************)
CHUNK_SIZE == 1024

\* asyncio.Queue(maxsize=10)
OutQueueMaxSize == 10

\* the two client connections of session s1; both name it in their path
Connections == {"c1", "c2"}

\* c3 is the client of session s2, in the runs that have a second session
Clients == Connections \cup {"c3"}

ConnSession(c) == IF c = "c3" THEN "s2" ELSE "s1"

\* WebSocketAudioLoop objects constructed in one run
MaxLoops == 2

NoLoop == 0

\* what a connection has asked last: the message type, whether audio_loops held
\* the session id when the message arrived, and the message sent back
Request(req, active, reply) == [req |-> req, active |-> active, reply |-> reply]

NoRequest == Request("none", FALSE, "none")

\* config.MAX_SESSION_DURATION, seconds
MAX_SESSION_DURATION == 900

\* asyncio.sleep(300) of the cleanup task, seconds
CleanupInterval == 300

\* self.cleanup_task = None
NoCleanup == 0 - 1

\* the interview mode every client asks for (the default of _handle_create_session)
DefaultMode == "amazon_interviewer"

\* SessionInfo(...): __post_init__ stamps created_at with datetime.now()
SessionInfo(mode, t) == [mode |-> mode, created_at |-> t]

\* asyncio.Lock(): an object distinct from every lock the table still holds
NewLock(locks) ==
    CHOOSE k \in 1..(Cardinality(DOMAIN locks) + 1) : \A s \in DOMAIN locks : locks[s] # k

NoMessage == [path |-> "none", size |-> 0]

NoChunk == [runs |-> <<>>, at |-> 0]

NewLoopRunning(session_id, websocket) ==
    [session_id |-> session_id, websocket |-> websocket, running |-> TRUE,
     live_session_manager |-> "none", tasks |-> <<>>]

\* WebSocketAudioLoop.__init__
NewLoop(session_id, websocket) ==
    [session_id |-> session_id, websocket |-> websocket, running |-> FALSE,
     live_session_manager |-> "none", tasks |-> <<>>]

\* a loop after start() returned
StartedLoop(session_id, websocket) ==
    [session_id |-> session_id, websocket |-> websocket, running |-> TRUE,
     live_session_manager |-> "open", tasks |-> <<"running", "running", "running">>]

RelInit ==
    /\ sm_active_sessions = EmptyDict
    /\ session_locks = EmptyDict
    /\ cleanup_due = NoCleanup
    /\ now = 0
    /\ swept = {}
    /\ websocket_connections = EmptyDict
    /\ audio_loops = EmptyDict
    /\ loops = <<>>
    /\ cpc = [c \in Clients |-> "init"]
    /\ c_loop = [c \in Clients |-> NoLoop]
    /\ c_ctx = [c \in Clients |-> "msg"]
    /\ c_last = [c \in Clients |-> NoRequest]
    /\ disc_streaming = {}

\* the queues and task locals of a loop that has moved no audio yet
InbInit ==
    /\ out_queue = <<>>
    /\ sr_pc = "get"
    /\ sr_msg = <<>>
    /\ sr_i = 0
    /\ upstream_sent = <<>>
    /\ accepted = <<>>
    /\ send_failed = FALSE
    /\ standalone_session = "none"
    /\ standalone = [pc |-> "idle", client |-> "none", handler |-> "none", recv |-> "none",
                     send |-> "none", queue |-> 0]
    /\ direct_last = NoMessage

OutInit ==
    /\ audio_in_queue = <<>>
    /\ fe_pc = "get"
    /\ audio_buffer = <<>>
    /\ playback_chunk = NoChunk
    /\ client_msgs = <<>>
    /\ epoch = 0
    /\ nout = 0
    /\ recv_pc = "receiving"

MainInit == RelInit /\ InbInit /\ OutInit

\* both servers as constructed, no client connected
IdleInit == SbInit /\ MainInit

(***************************************************************************)
(* Transcript aggregator: add_buffered_transcript, save_buffered           *)
(***************************************************************************)
\* what the database does with one insert: it returns the stored row, it returns
\* no data (or the conversation is unknown, or there is no database client), or
\* one of its calls raises
SinkResults == {"row", "none", "raised"}

AddTranscriptPropagates(result) == result

\* what add_transcript gives its caller: "except Exception" turns a raising call
\* into the return value None
AddTranscriptReturns(result) == IF result = "row" THEN "row" ELSE "None"

\* add_transcript: one row handed to the transcript sink, with what became of it
AddTranscript(rows, session_id, speaker, text, provider, via, raw, result) ==
    Append(rows, [session_id |-> session_id, speaker |-> speaker, text |-> text,
                  provider |-> provider, via |-> via, raw |-> raw, result |-> result])

\* a filter that lets short fragments through
IgnoredFragmentBlankOnly(text) == Strip(text) = <<>>

\* the fragment filter at the head of add_buffered_transcript
IgnoredFragment(text) ==
    \/ Strip(text) = <<>>
    \/ /\ Len(Strip(text)) <= NoiseLength
       /\ \A e \in SentenceEnds : ~ContainsChar(Strip(text), e)

\* a flush test that misses the sentence end followed by a space
ShouldSaveNowAtEndOnly(accumulated_text) ==
    \/ \E e \in SentenceEnds : EndsWith(accumulated_text, e)
    \/ Len(accumulated_text) > LengthCeiling

ShouldSaveNow(accumulated_text) ==
    \/ \E e \in SentenceEnds : EndsWith(accumulated_text, e)
    \/ Len(accumulated_text) > LengthCeiling
    \/ \E e \in SentenceEnds : ContainsThenSpace(accumulated_text, e)

\* what add_buffered_transcript appends to the buffer for one fragment
NewText(text) == Strip(text)

\* the "require meaningful length" test of the two flushes of the aggregator
MeaningfulLength(t) == t # <<>> /\ Len(t) > MinMeaningfulLength

AggVars == <<transcript_buffers, transcript_timers, timer_tasks, timer_seq,
             transcripts, raw_buffers>>

\* a cancel that leaves the sleeping task alone
CancelTimerKeeps(tasks, timer) == tasks

\* timer.cancel(): the sleeping task, if any, never runs its body
CancelTimer(tasks, timer) == {t \in tasks : t.id # timer}

\* a flush that leaves the emitted text in the buffer
ClearedKeeps(buffer) == buffer

\* self.transcript_buffers[session_id][speaker] = ""
Cleared(buffer) == <<>>

\* a timer task that is created but never scheduled
ArmTimerLost(tasks, t) == tasks

\* asyncio.create_task(save_buffered()): the new task sleeps next to the others
ArmTimer(tasks, t) == tasks \cup {t}

\* the await of add_transcript lets an exception through: the lines after it
\* (clearing the buffer and the timer entry) do not run
Raised(handed, result) == handed /\ AddTranscriptReturns(result) = "raised"

AddBufferedTranscript(session_id, speaker, text, provider, result) ==
    IF IgnoredFragment(text)
    THEN UNCHANGED AggVars
    ELSE
      LET known == session_id \in DOMAIN transcript_buffers
          bufs0 == IF known THEN transcript_buffers[session_id] ELSE EmptyDict
          tims0 == IF known THEN transcript_timers[session_id] ELSE EmptyDict
          raws0 == IF known THEN raw_buffers[session_id] ELSE EmptyDict
          seen == speaker \in DOMAIN bufs0
          current_buffer == IF seen THEN bufs0[speaker] ELSE <<>>
          old_timer == IF seen THEN tims0[speaker].timer ELSE 0
          \* datetime.now() of this call: deliveries are told apart by their number
          last_update == nfrag + 1
          buffer == current_buffer \o NewText(text)
          raw == (IF seen THEN raws0[speaker] ELSE <<>>) \o text
          accumulated_text == Strip(buffer)
          uncancelled == CancelTimer(timer_tasks, old_timer)
      IN
        IF ShouldSaveNow(accumulated_text)
        THEN
          LET raised == Raised(MeaningfulLength(accumulated_text), result) IN
          /\ transcripts' =
               IF MeaningfulLength(accumulated_text)
               THEN AddTranscript(transcripts, session_id, speaker, accumulated_text,
                                  provider, "immediate", raw, result)
               ELSE transcripts
          /\ transcript_buffers' =
               DictSet(transcript_buffers, session_id,
                       DictSet(bufs0, speaker, IF raised THEN buffer ELSE Cleared(buffer)))
          /\ raw_buffers' =
               DictSet(raw_buffers, session_id,
                       DictSet(raws0, speaker, IF raised THEN raw ELSE <<>>))
          /\ transcript_timers' =
               DictSet(transcript_timers, session_id,
                       DictSet(tims0, speaker,
                               [timer |-> IF raised THEN old_timer ELSE 0,
                                last_update |-> last_update]))
          /\ timer_tasks' = uncancelled
          /\ UNCHANGED timer_seq
        ELSE
          /\ transcript_buffers' =
               DictSet(transcript_buffers, session_id, DictSet(bufs0, speaker, buffer))
          /\ raw_buffers' = DictSet(raw_buffers, session_id, DictSet(raws0, speaker, raw))
          /\ timer_seq' = timer_seq + 1
          /\ transcript_timers' =
               DictSet(transcript_timers, session_id,
                       DictSet(tims0, speaker,
                               [timer |-> timer_seq + 1, last_update |-> last_update]))
          /\ timer_tasks' = ArmTimer(uncancelled,
               [id |-> timer_seq + 1, session_id |-> session_id, speaker |-> speaker,
                provider |-> provider])
          /\ UNCHANGED transcripts

\* save_buffered: the body a timer task runs once its six-second sleep is over
SaveBuffered(t, result) ==
    LET sid == t.session_id
        sp == t.speaker
        present == sid \in DOMAIN transcript_buffers /\ sp \in DOMAIN transcript_buffers[sid]
        buffered_text == Strip(transcript_buffers[sid][sp])
    IN
      /\ timer_tasks' = timer_tasks \ {t}
      /\ UNCHANGED timer_seq
      /\ IF present /\ Raised(MeaningfulLength(buffered_text), result)
         THEN
           /\ transcripts' = AddTranscript(transcripts, sid, sp, buffered_text, t.provider,
                                           "timer", raw_buffers[sid][sp], result)
           /\ UNCHANGED <<transcript_buffers, raw_buffers, transcript_timers>>
         ELSE IF present
         THEN
           /\ transcripts' =
                IF MeaningfulLength(buffered_text)
                THEN AddTranscript(transcripts, sid, sp, buffered_text, t.provider,
                                   "timer", raw_buffers[sid][sp], result)
                ELSE transcripts
           /\ transcript_buffers' =
                DictSet(transcript_buffers, sid,
                        DictSet(transcript_buffers[sid], sp, Cleared(transcript_buffers[sid][sp])))
           /\ raw_buffers' = DictSet(raw_buffers, sid, DictSet(raw_buffers[sid], sp, <<>>))
           /\ transcript_timers' =
                IF sid \in DOMAIN transcript_timers /\ sp \in DOMAIN transcript_timers[sid]
                THEN DictSet(transcript_timers, sid,
                             DictSet(transcript_timers[sid], sp,
                                     [transcript_timers[sid][sp] EXCEPT !.timer = 0]))
                ELSE transcript_timers
         ELSE UNCHANGED <<transcripts, transcript_buffers, raw_buffers, transcript_timers>>

(***************************************************************************)
(* SimpleSupabaseBackend: websocket_endpoint, create_session, tasks        *)
(***************************************************************************)
LifeVars == <<sb_active_sessions, gemini_sessions, sb_upstream, audio_out_queues,
              sb_queues, send_tasks, audio_streaming_tasks, recv_tasks,
              sb_websocket_connections, hpc, hctx, h_cm, sb_created, sb_closed>>

\* websocket_endpoint: accept and register the connection
WsConnect(h) ==
    /\ hpc[h] = "init"
    /\ hpc' = [hpc EXCEPT ![h] = "recv"]
    /\ sb_websocket_connections' = sb_websocket_connections \cup {HandlerSession(h)}
    /\ UNCHANGED <<sb_active_sessions, gemini_sessions, sb_upstream, audio_out_queues,
                   sb_queues, send_tasks, audio_streaming_tasks, recv_tasks, hctx, h_cm,
                   sb_created, sb_closed, nfrag>>
    /\ UNCHANGED AggVars
    /\ UNCHANGED mainVars

\* handle_websocket_message, create_session: up to the await of the upstream open
CreateSessionBegin(h) ==
    LET s == HandlerSession(h) IN
    /\ hpc[h] = "recv"
    /\ Len(sb_upstream) < MaxUpstream
    /\ sb_active_sessions' = sb_active_sessions \cup {s}
    /\ sb_created' = sb_created \cup {s}
    /\ sb_closed' = [sb_closed EXCEPT ![s] = 0]
    /\ hpc' = [hpc EXCEPT ![h] = "create_aenter"]
    /\ UNCHANGED <<gemini_sessions, sb_upstream, audio_out_queues, sb_queues, send_tasks,
                   audio_streaming_tasks, recv_tasks, sb_websocket_connections, hctx,
                   h_cm, nfrag>>
    /\ UNCHANGED AggVars
    /\ UNCHANGED mainVars

\* create_gemini_session returned a session; start_audio_streaming
CreateSessionConnected(h) ==
    LET s == HandlerSession(h)
        u == Len(sb_upstream) + 1
    IN
    /\ hpc[h] = "create_aenter"
    /\ sb_upstream' = Append(sb_upstream, "open")
    /\ gemini_sessions' = DictSet(gemini_sessions, s, u)
    /\ audio_out_queues' = DictSet(audio_out_queues, s, u)
    /\ sb_queues' = Append(sb_queues, <<>>)
    /\ recv_tasks' = Append(recv_tasks, [session_id |-> s, st |-> "running"])
    /\ send_tasks' = Append(send_tasks, "running")
    /\ audio_streaming_tasks' = DictSet(audio_streaming_tasks, s, u)
    /\ hpc' = [hpc EXCEPT ![h] = "recv"]
    /\ UNCHANGED <<sb_active_sessions, sb_websocket_connections, hctx, h_cm, sb_created,
                   sb_closed, nfrag>>
    /\ UNCHANGED AggVars
    /\ UNCHANGED mainVars

\* create_gemini_session returned None: the client is sent an error
CreateSessionFailed(h) ==
    /\ hpc[h] = "create_aenter"
    /\ hpc' = [hpc EXCEPT ![h] = "recv"]
    /\ UNCHANGED <<sb_active_sessions, gemini_sessions, sb_upstream, audio_out_queues,
                   sb_queues, send_tasks, audio_streaming_tasks, recv_tasks,
                   sb_websocket_connections, hctx, h_cm, sb_created, sb_closed, nfrag>>
    /\ UNCHANGED AggVars
    /\ UNCHANGED mainVars

\* receive_audio_from_gemini: one response carrying transcript text
\* an exception out of add_buffered_transcript would reach the task's
\* "except Exception", which ends the task
RecvTranscript(u, k, text, result) ==
    /\ u \in DOMAIN recv_tasks
    /\ recv_tasks[u].st = "running"
    /\ sb_upstream[u] = "open"
    /\ nfrag < MaxFragments
    /\ nfrag' = nfrag + 1
    /\ AddBufferedTranscript(recv_tasks[u].session_id, KindSpeaker(k), text, KindProvider(k),
                             result)
    /\ recv_tasks' = IF Raised(transcripts' # transcripts, result)
                     THEN [recv_tasks EXCEPT ![u].st = "done"]
                     ELSE recv_tasks
    /\ UNCHANGED <<sb_active_sessions, gemini_sessions, sb_upstream, audio_out_queues,
                   sb_queues, send_tasks, audio_streaming_tasks, sb_websocket_connections,
                   hpc, hctx, h_cm, sb_created, sb_closed>>
    /\ UNCHANGED mainVars

\* receive_audio_from_gemini: one response carrying audio data, queued for the
\* send task when the session still has a queue
RecvAudio(u) ==
    LET s == recv_tasks[u].session_id IN
    /\ u \in DOMAIN recv_tasks
    /\ recv_tasks[u].st = "running"
    /\ sb_upstream[u] = "open"
    /\ s \in DOMAIN audio_out_queues
    /\ Len(sb_queues[audio_out_queues[s]]) < MaxQueuedAudio
    /\ sb_queues' = [sb_queues EXCEPT ![audio_out_queues[s]] = Append(@, "audio")]
    /\ UNCHANGED <<sb_active_sessions, gemini_sessions, sb_upstream, audio_out_queues,
                   send_tasks, audio_streaming_tasks, recv_tasks, sb_websocket_connections,
                   hpc, hctx, h_cm, sb_created, sb_closed, nfrag>>
    /\ UNCHANGED AggVars
    /\ UNCHANGED mainVars

\* receive_audio_from_gemini: the turn is over and the session id is no longer in
\* gemini_sessions, or the upstream connection was closed under the task
RecvTaskEnds(u) ==
    /\ u \in DOMAIN recv_tasks
    /\ recv_tasks[u].st = "running"
    /\ \/ recv_tasks[u].session_id \notin DOMAIN gemini_sessions
       \/ sb_upstream[u] # "open"
    /\ recv_tasks' = [recv_tasks EXCEPT ![u].st = "done"]
    /\ UNCHANGED <<sb_active_sessions, gemini_sessions, sb_upstream, audio_out_queues,
                   sb_queues, send_tasks, audio_streaming_tasks, sb_websocket_connections,
                   hpc, hctx, h_cm, sb_created, sb_closed, nfrag>>
    /\ UNCHANGED AggVars
    /\ UNCHANGED mainVars

\* the speech service ends the connection from its side: session.receive() raises
UpstreamFails(u) ==
    /\ u \in DOMAIN sb_upstream
    /\ sb_upstream[u] = "open"
    /\ sb_upstream' = [sb_upstream EXCEPT ![u] = "gone"]
    /\ UNCHANGED <<sb_active_sessions, gemini_sessions, audio_out_queues, sb_queues,
                   send_tasks, audio_streaming_tasks, recv_tasks, sb_websocket_connections,
                   hpc, hctx, h_cm, sb_created, sb_closed, nfrag>>
    /\ UNCHANGED AggVars
    /\ UNCHANGED mainVars

\* send_audio_to_websocket: take the next item; None is the shutdown signal
SendAudioToWebsocket(q) ==
    /\ q \in DOMAIN send_tasks
    /\ send_tasks[q] = "running"
    /\ sb_queues[q] # <<>>
    /\ sb_queues' = [sb_queues EXCEPT ![q] = Tail(@)]
    /\ send_tasks' = [send_tasks EXCEPT ![q] = IF Head(sb_queues[q]) = "None" THEN "done" ELSE @]
    /\ UNCHANGED <<sb_active_sessions, gemini_sessions, sb_upstream, audio_out_queues,
                   audio_streaming_tasks, recv_tasks, sb_websocket_connections, hpc, hctx,
                   h_cm, sb_created, sb_closed, nfrag>>
    /\ UNCHANGED AggVars
    /\ UNCHANGED mainVars

\* a timer task wakes from its sleep
TimerFires(t, result) ==
    /\ t \in timer_tasks
    /\ SaveBuffered(t, result)
    /\ UNCHANGED LifeVars
    /\ UNCHANGED nfrag
    /\ UNCHANGED mainVars

(***************************************************************************)
(* SimpleSupabaseBackend.close_session                                     *)
(* It suspends at "await task" (when it cancelled a live receive task) and *)
(* at "await context_manager.__aexit__"; the code between runs unbroken.   *)
(***************************************************************************)
Orders(S) == {o \in [1..Cardinality(S) -> S] : \A i, j \in 1..Cardinality(S) : o[i] = o[j] => i = j}

\* the teardown test on a remaining buffer: "if buffered_text.strip():"
CleanupKeeps(buffered_text) == Strip(buffered_text) # <<>>

RECURSIVE FlushRemaining(_, _, _, _, _)
FlushRemaining(rows, s, bufs, raws, order) ==
    IF order = <<>> THEN rows
    ELSE LET sp == Head(order) IN
         FlushRemaining(
             IF CleanupKeeps(bufs[sp])
             THEN AddTranscript(rows, s, sp, Strip(bufs[sp]), "session_cleanup",
                                "session_cleanup", raws[sp], "row")
             ELSE rows,
             s, bufs, raws, Tail(order))

\* "Clean up transcript buffers and timers"
CleanupTranscripts(s) ==
    IF s \in DOMAIN transcript_buffers
    THEN
      /\ IF s \in DOMAIN transcript_timers
         THEN /\ timer_tasks' =
                   {t \in timer_tasks :
                       \A sp \in DOMAIN transcript_timers[s] : transcript_timers[s][sp].timer # t.id}
              /\ transcript_timers' = DictDel(transcript_timers, s)
         ELSE UNCHANGED <<timer_tasks, transcript_timers>>
      /\ \E order \in Orders(DOMAIN transcript_buffers[s]) :
            transcripts' = FlushRemaining(transcripts, s, transcript_buffers[s],
                                          raw_buffers[s], order)
      /\ transcript_buffers' = DictDel(transcript_buffers, s)
      /\ raw_buffers' = DictDel(raw_buffers, s)
      /\ UNCHANGED timer_seq
    ELSE UNCHANGED AggVars

\* close_session from "Remove from active sessions" to its end
CloseTail(h, s, ctx) ==
    /\ sb_active_sessions' = sb_active_sessions \ {s}
    /\ CleanupTranscripts(s)
    /\ sb_websocket_connections' = sb_websocket_connections \ {s}
    /\ sb_closed' = [sb_closed EXCEPT ![s] = IF @ < MaxClosesCounted THEN @ + 1 ELSE @]
    /\ hpc' = [hpc EXCEPT ![h] = IF ctx = "finally" THEN "closed"
                                  ELSE IF ctx = "delete" THEN "deleted" ELSE "recv"]

\* "Cleanup audio queue": the shutdown signal, then the table entry
CloseQueuePart(s) ==
    IF s \in DOMAIN audio_out_queues
    THEN /\ sb_queues' = [sb_queues EXCEPT ![audio_out_queues[s]] = Append(@, "None")]
         /\ audio_out_queues' = DictDel(audio_out_queues, s)
    ELSE UNCHANGED <<sb_queues, audio_out_queues>>

\* close_session from the queue cleanup on: to the __aexit__ await, or to its end
\* when the session has no upstream connection
CloseFromQueue(h, s, ctx) ==
    /\ CloseQueuePart(s)
    /\ IF s \in DOMAIN gemini_sessions
       THEN /\ hpc' = [hpc EXCEPT ![h] = "close_aexit"]
            /\ h_cm' = [h_cm EXCEPT ![h] = gemini_sessions[s]]
            /\ UNCHANGED <<sb_active_sessions, sb_websocket_connections, sb_closed>>
            /\ UNCHANGED AggVars
       ELSE /\ CloseTail(h, s, ctx)
            /\ UNCHANGED h_cm
    /\ UNCHANGED <<gemini_sessions, sb_upstream, send_tasks, sb_created, nfrag>>

\* close_session from its first line to its first await that suspends
CloseSessionEnter(h, ctx) ==
    LET s == HandlerSession(h) IN
    /\ hctx' = [hctx EXCEPT ![h] = ctx]
    /\ IF s \in DOMAIN audio_streaming_tasks
          /\ recv_tasks[audio_streaming_tasks[s]].st # "done"
       THEN \* task.cancel(); await task
            /\ recv_tasks' = [recv_tasks EXCEPT ![audio_streaming_tasks[s]].st = "done"]
            /\ hpc' = [hpc EXCEPT ![h] = "close_await_task"]
            /\ UNCHANGED <<sb_active_sessions, gemini_sessions, sb_upstream,
                           audio_out_queues, sb_queues, send_tasks, audio_streaming_tasks,
                           sb_websocket_connections, h_cm, sb_created, sb_closed, nfrag>>
            /\ UNCHANGED AggVars
       ELSE /\ audio_streaming_tasks' = DictDel(audio_streaming_tasks, s)
            /\ UNCHANGED recv_tasks
            /\ CloseFromQueue(h, s, ctx)
    /\ UNCHANGED mainVars

\* close_session is entered, from the end_session message ("msg") or from the
\* finally block of websocket_endpoint ("finally")
CloseSessionBegin(h, ctx) == hpc[h] = "recv" /\ CloseSessionEnter(h, ctx)

EndSession(h) == CloseSessionBegin(h, "msg")

\* delete_conversation: close_session if the id is in active_sessions, then the
\* deletion of the rows
DeleteConversation(h) ==
    /\ hpc[h] = "init"
    /\ IF HandlerSession(h) \in sb_active_sessions
       THEN CloseSessionEnter(h, "delete")
       ELSE /\ hpc' = [hpc EXCEPT ![h] = "deleted"]
            /\ UNCHANGED <<sb_active_sessions, gemini_sessions, sb_upstream, audio_out_queues,
                           sb_queues, send_tasks, audio_streaming_tasks, recv_tasks,
                           sb_websocket_connections, hctx, h_cm, sb_created, sb_closed, nfrag>>
            /\ UNCHANGED AggVars
            /\ UNCHANGED mainVars

Disconnect(h) == CloseSessionBegin(h, "finally")

\* the cancelled receive task has finished; close_session goes on with
\* "del self.audio_streaming_tasks[session_id]", which raises KeyError out of
\* close_session when the entry went while this call was waiting
CloseTaskAwaited(h) ==
    LET s == HandlerSession(h) IN
    /\ hpc[h] = "close_await_task"
    /\ IF s \in DOMAIN audio_streaming_tasks
       THEN /\ audio_streaming_tasks' = DictDel(audio_streaming_tasks, s)
            /\ UNCHANGED <<recv_tasks, hctx>>
            /\ CloseFromQueue(h, s, hctx[h])
       ELSE /\ hpc' = [hpc EXCEPT ![h] = "raised"]
            /\ UNCHANGED <<sb_active_sessions, gemini_sessions, sb_upstream, audio_out_queues,
                           sb_queues, send_tasks, audio_streaming_tasks, recv_tasks,
                           sb_websocket_connections, hctx, h_cm, sb_created, sb_closed, nfrag>>
            /\ UNCHANGED AggVars
    /\ UNCHANGED mainVars

\* context_manager.__aexit__ returned: the upstream connection is closed
CloseExitOk(h) ==
    LET s == HandlerSession(h) IN
    /\ hpc[h] = "close_aexit"
    /\ sb_upstream' = [sb_upstream EXCEPT ![h_cm[h]] = "closed"]
    /\ gemini_sessions' = DictDel(gemini_sessions, s)
    /\ CloseTail(h, s, hctx[h])
    /\ UNCHANGED <<audio_out_queues, sb_queues, send_tasks, audio_streaming_tasks,
                   recv_tasks, hctx, h_cm, sb_created, nfrag>>
    /\ UNCHANGED mainVars

\* context_manager.__aexit__ raised: "except Exception" prints it, the del is skipped
CloseExitFails(h) ==
    LET s == HandlerSession(h) IN
    /\ hpc[h] = "close_aexit"
    /\ CloseTail(h, s, hctx[h])
    /\ UNCHANGED <<gemini_sessions, sb_upstream, audio_out_queues, sb_queues, send_tasks,
                   audio_streaming_tasks, recv_tasks, hctx, h_cm, sb_created, nfrag>>
    /\ UNCHANGED mainVars

(***************************************************************************)
(* Specifications of the simple backend                                    *)
(*   SpecAgg     one session whose upstream is opened once, fed with the   *)
(*               text fragments of AggInputs                               *)
(*   SpecSimple  a session that may be created again while it is live,     *)
(*               fed with the fragments of LifeInputs                      *)
(***************************************************************************)
AggInputs == {<<"output_transcription", FragITh>>, <<"output_transcription", FragInkThe>>,
              <<"output_transcription", FragAnswer>>, <<"input_transcription", FragUm>>,
              <<"input_transcription", FragHello>>, <<"input_transcription", FragBlank>>}

LifeInputs == {<<"input_transcription", FragHello>>}

\* text of n characters without a sentence end
RECURSIVE Filler(_)
Filler(n) == IF n = 0 THEN <<>> ELSE Append(Filler(n - 1), "a")

FragLong == Filler(LengthCeiling + 1)

FragMid == <<"n", "o", ".", " ", "w", "a", "i", "t", " ", "u", "p">>

FragOk == <<"o", "k", ".">>

\* fragments for every way a flush is decided: a sentence end at the end, one
\* followed by a space, the length ceiling, on both sides of the minimum length,
\* and text that waits for its timer
FlushInputs == {<<"input_transcription", FragLong>>, <<"input_transcription", FragMid>>,
                <<"output_transcription", FragOk>>, <<"input_transcription", FragHello>>,
                <<"output_transcription", FragAnswer>>}

SinkInputs == {<<"output_transcription", FragAnswer>>, <<"input_transcription", FragHello>>,
               <<"input_transcription", FragITh>>}

SbCommonNext ==
    \/ \E h \in Handlers : WsConnect(h)
    \/ \E h \in Handlers : CreateSessionConnected(h)
    \/ \E h \in Handlers : CreateSessionFailed(h)
    \/ \E u \in 1..MaxUpstream : RecvTaskEnds(u)
    \/ \E u \in 1..MaxUpstream : UpstreamFails(u)
    \/ \E q \in 1..MaxUpstream : SendAudioToWebsocket(q)
    \/ \E t \in timer_tasks : TimerFires(t, "row")
    \/ \E h \in Handlers : EndSession(h)
    \/ \E h \in Handlers : Disconnect(h)
    \/ \E h \in Handlers : CloseTaskAwaited(h)
    \/ \E h \in Handlers : CloseExitOk(h)
    \/ \E h \in Handlers : CloseExitFails(h)

AggNext ==
    \/ SbCommonNext
    \/ \E h \in Handlers : sb_upstream = <<>> /\ CreateSessionBegin(h)
    \/ \E u \in 1..MaxUpstream, i \in AggInputs : RecvTranscript(u, i[1], i[2], "row")

SpecAgg == IdleInit /\ [][AggNext]_vars

LifeNext ==
    \/ SbCommonNext
    \/ \E h \in Handlers : CreateSessionBegin(h)
    \/ \E u \in 1..MaxUpstream, i \in LifeInputs : RecvTranscript(u, i[1], i[2], "row")

SpecSimple == IdleInit /\ [][LifeNext]_vars

\* one client of session s1 whose transcript sink may fail at every insert
SinkNext ==
    \/ WsConnect("h1")
    \/ sb_upstream = <<>> /\ CreateSessionBegin("h1")
    \/ CreateSessionConnected("h1")
    \/ \E u \in 1..MaxUpstream, i \in SinkInputs, r \in SinkResults :
          RecvTranscript(u, i[1], i[2], r)
    \/ \E t \in timer_tasks, r \in SinkResults : TimerFires(t, r)
    \/ Disconnect("h1")
    \/ CloseTaskAwaited("h1")
    \/ CloseExitOk("h1")
    \/ CloseExitFails("h1")

SpecSink == IdleInit /\ [][SinkNext]_vars

\* one client of session s1 whose upstream sends the fragments of FlushInputs
FlushNext ==
    \/ WsConnect("h1")
    \/ sb_upstream = <<>> /\ CreateSessionBegin("h1")
    \/ CreateSessionConnected("h1")
    \/ \E u \in 1..MaxUpstream, i \in FlushInputs : RecvTranscript(u, i[1], i[2], "row")
    \/ \E t \in timer_tasks : TimerFires(t, "row")
    \/ Disconnect("h1")
    \/ CloseTaskAwaited("h1")
    \/ CloseExitOk("h1")
    \/ CloseExitFails("h1")

SpecFlush == IdleInit /\ [][FlushNext]_vars

\* one client of session s1 and a DELETE /api/conversations/s1 request that
\* arrives at any time
DeleteNext ==
    \/ WsConnect("h1")
    \/ sb_upstream = <<>> /\ CreateSessionBegin("h1")
    \/ CreateSessionConnected("h1")
    \/ \E u \in 1..MaxUpstream, i \in LifeInputs : RecvTranscript(u, i[1], i[2], "row")
    \/ \E t \in timer_tasks : TimerFires(t, "row")
    \/ \E q \in 1..MaxUpstream : SendAudioToWebsocket(q)
    \/ Disconnect("h1")
    \/ DeleteConversation("d1")
    \/ \E h \in {"h1", "d1"} : CloseTaskAwaited(h)
    \/ \E h \in {"h1", "d1"} : CloseExitOk(h)
    \/ \E h \in {"h1", "d1"} : CloseExitFails(h)

SpecDelete == IdleInit /\ [][DeleteNext]_vars

\* one client of session s1 whose session is created once, with audio and
\* transcript text arriving from upstream until the session is closed
TeardownNext ==
    \/ WsConnect("h1")
    \/ sb_upstream = <<>> /\ CreateSessionBegin("h1")
    \/ CreateSessionConnected("h1")
    \/ \E u \in 1..MaxUpstream : RecvAudio(u)
    \/ \E u \in 1..MaxUpstream, i \in LifeInputs : RecvTranscript(u, i[1], i[2], "row")
    \/ \E t \in timer_tasks : TimerFires(t, "row")
    \/ \E q \in 1..MaxUpstream : SendAudioToWebsocket(q)
    \/ EndSession("h1")
    \/ Disconnect("h1")
    \/ CloseTaskAwaited("h1")
    \/ CloseExitOk("h1")
    \/ CloseExitFails("h1")

SpecTeardown == IdleInit /\ [][TeardownNext]_vars

(***************************************************************************)
(* Claims about the transcript aggregator and close_session                *)
(***************************************************************************)
ExampleText == FragITh \o FragInkThe \o FragAnswer

\* C7: the fragments "I th", "ink the", " answer is 4." appended in order are emitted
\* as one Utterance whose text is their verbatim concatenation,
\* "I think the answer is 4.", no character added or removed.
C7_VerbatimUtterance ==
    \A i \in DOMAIN transcripts :
        (transcripts[i].via = "immediate" /\ transcripts[i].raw = ExampleText)
            => transcripts[i].text = ExampleText

\* C8: the teardown flush emits an Utterance only for a buffer longer than the
\* minimum meaningful length (8 characters).
C8_TeardownKeepsMinimumLength ==
    \A i \in DOMAIN transcripts :
        transcripts[i].via = "session_cleanup"
            => Len(transcripts[i].text) > MinMeaningfulLength

\* C9: once close_session has completed for a session id (and the session was not
\* created again), transcript_buffers and transcript_timers have no entry for it.
C9_NoBufferOutlivesClose ==
    \A s \in SessionIds :
        sb_closed[s] > 0
            => s \notin DOMAIN transcript_buffers /\ s \notin DOMAIN transcript_timers

AbsentEverywhere(s) ==
    /\ s \notin sb_active_sessions
    /\ s \notin DOMAIN gemini_sessions
    /\ s \notin DOMAIN audio_out_queues
    /\ s \notin DOMAIN audio_streaming_tasks
    /\ s \notin DOMAIN transcript_buffers
    /\ s \notin DOMAIN transcript_timers
    /\ s \notin sb_websocket_connections

\* C10: when close_session returns for the second time in a row on a session id, or
\* returns on an id that was never created, the id is in no per-session table.
C10_CloseAgainLeavesNothing ==
    [][\A s \in SessionIds :
          (sb_closed'[s] > sb_closed[s] /\ (sb_closed'[s] >= 2 \/ s \notin sb_created))
              => AbsentEverywhere(s)']_vars

\* C20: when the cleanup of a websocket disconnect and a DELETE of the same
\* conversation both call close_session, neither call raises.
C20_ConcurrentCloseNeverRaises == \A h \in AllHandlers : hpc[h] # "raised"

\* C25: after any sequence of client messages for one session id, repeated
\* create_session messages included, at most one upstream connection opened for
\* that session is open.
C25_OneOpenUpstreamPerSession ==
    \A s \in SessionIds :
        Cardinality({u \in DOMAIN sb_upstream :
                        sb_upstream[u] = "open" /\ recv_tasks[u].session_id = s}) <= 1

\* C21: once close_session has returned for a session, no task started for that
\* session sends anything to the client websocket: the teardown cancelled and
\* awaited every one of them.
C21_NoSendAfterTeardown ==
    [][\A q \in DOMAIN send_tasks :
          (SendAudioToWebsocket(q) /\ Head(sb_queues[q]) # "None")
              => sb_closed[recv_tasks[q].session_id] = 0]_vars

\* the rows a step hands to the sink from the receive task or from a timer and
\* that the sink does not store
FailedRows ==
    {i \in (Len(transcripts) + 1)..Len(transcripts') :
        transcripts'[i].result # "row" /\ transcripts'[i].via \in {"immediate", "timer"}}

Accumulated(s, sp) ==
    IF s \in DOMAIN transcript_buffers /\ sp \in DOMAIN transcript_buffers[s]
    THEN transcript_buffers[s][sp] ELSE <<>>

\* the conditions of an immediate flush, as the claim words them
FlushDue(t) ==
    \/ EndsWith(t, ".") \/ EndsWith(t, "!") \/ EndsWith(t, "?")
    \/ ContainsThenSpace(t, ".") \/ ContainsThenSpace(t, "!") \/ ContainsThenSpace(t, "?")
    \/ Len(t) > 300

\* no timer task of speaker sp of session s is waiting
NoTimerPending(s, sp) ==
    /\ transcript_timers[s][sp].timer = 0
    /\ \A t \in timer_tasks : ~(t.session_id = s /\ t.speaker = sp)

\* C29: after a fragment that makes the accumulated text end in '.', '!' or '?',
\* contain ". ", "! " or "? ", or exceed 300 characters, the speaker's buffer is
\* empty and no flush timer is pending, and one Utterance with the whole
\* accumulated text was emitted if that text is longer than 8 characters, none
\* otherwise.
C29_FlushClearsAndEmits ==
    [][\A u \in 1..MaxUpstream, i \in FlushInputs :
          LET s == recv_tasks[u].session_id
              sp == KindSpeaker(i[1])
              text == Strip(Accumulated(s, sp) \o Strip(i[2]))
          IN (RecvTranscript(u, i[1], i[2], "row") /\ ~IgnoredFragment(i[2]) /\ FlushDue(text))
               => /\ transcript_buffers'[s][sp] = <<>>
                  /\ NoTimerPending(s, sp)'
                  /\ IF Len(text) > 8
                     THEN /\ Len(transcripts') = Len(transcripts) + 1
                          /\ SubSeq(transcripts', 1, Len(transcripts)) = transcripts
                          /\ transcripts'[Len(transcripts')].text = text
                          /\ transcripts'[Len(transcripts')].speaker = sp
                          /\ transcripts'[Len(transcripts')].session_id = s
                     ELSE transcripts' = transcripts]_vars

\* a text past the length ceiling and a text with a sentence end in its middle
\* were emitted, and the assistant's short "ok." was dropped
C29_Witness ==
    /\ \E i \in DOMAIN transcripts :
          transcripts[i].via = "immediate" /\ Len(transcripts[i].text) > 300
    /\ \E i \in DOMAIN transcripts :
          /\ transcripts[i].via = "immediate"
          /\ ContainsThenSpace(transcripts[i].text, ".")
          /\ ~EndsWith(transcripts[i].text, ".")
    /\ "s1" \in DOMAIN transcript_buffers
    /\ "assistant" \in DOMAIN transcript_buffers["s1"]
    /\ transcript_buffers["s1"]["assistant"] = <<>>
    /\ \A i \in DOMAIN transcripts : transcripts[i].speaker # "assistant"

\* the timer tasks of speaker sp of session s that are waiting
Pending(s, sp) == {t \in timer_tasks : t.session_id = s /\ t.speaker = sp}

OneTimerPending ==
    \A s \in SessionIds, sp \in Speakers : Cardinality(Pending(s, sp)) <= 1

\* an accepted fragment cancels the timer armed before it
CancelOnFragment ==
    \A u \in 1..MaxUpstream, i \in FlushInputs :
        (RecvTranscript(u, i[1], i[2], "row") /\ ~IgnoredFragment(i[2]))
            => Pending(recv_tasks[u].session_id, KindSpeaker(i[1])) \cap timer_tasks' = {}

\* a timer that fires emits what the buffer holds at that moment, if anything
TimerEmitsBuffer ==
    \A t \in timer_tasks :
        TimerFires(t, "row") =>
            \/ transcripts' = transcripts
            \/ /\ Len(transcripts') = Len(transcripts) + 1
               /\ SubSeq(transcripts', 1, Len(transcripts)) = transcripts
               /\ transcripts'[Len(transcripts')].text # <<>>
               /\ transcripts'[Len(transcripts')].text
                     = Strip(Accumulated(t.session_id, t.speaker))

\* text that was emitted by an immediate flush or by a timer is no longer in the
\* buffer, so no later timer finds it there
EmittedLeavesBuffer ==
    \A k \in (Len(transcripts) + 1)..Len(transcripts'), s \in SessionIds, sp \in Speakers :
        /\ transcripts'[k].via \in {"immediate", "timer"}
        /\ transcripts'[k].session_id = s
        /\ transcripts'[k].speaker = sp
        => Accumulated(s, sp)' = <<>>

\* C30: at most one flush timer is pending per (session, speaker): every accepted
\* fragment cancels the timer armed before it; and a timer that fires emits only
\* text that is still in the buffer, never text an immediate flush in between
\* has emitted.
C30_OneTimerPerSpeaker ==
    []OneTimerPending /\ [][CancelOnFragment /\ TimerEmitsBuffer /\ EmittedLeavesBuffer]_vars

\* a timer has fired and emitted its text, and the third timer armed for that
\* speaker is waiting: the first was cancelled by the second fragment
C30_Witness ==
    \E i \in DOMAIN transcripts :
        /\ transcripts[i].via = "timer"
        /\ \E t \in timer_tasks :
              /\ t.speaker = transcripts[i].speaker
              /\ t.session_id = transcripts[i].session_id
              /\ t.id = 3

\* the event loop runs a timer task whose sleep is over
TimersFire ==
    \A s \in SessionIds, sp \in Speakers :
        WF_vars(\E t \in Pending(s, sp) : TimerFires(t, "row"))

SpecFlushFair == IdleInit /\ [][FlushNext]_vars /\ TimersFire

\* text in a buffer is not there for ever
BufferedTextLeaves ==
    \A s \in SessionIds, sp \in Speakers :
        (Accumulated(s, sp) # <<>>) ~> (Accumulated(s, sp) = <<>>)

IsPrefix(p, q) == Len(p) <= Len(q) /\ SubSeq(q, 1, Len(p)) = p

\* a buffer only grows by a fragment or is emptied by a flush, and what a flush
\* emits for the speaker starts with what the buffer held
LeavesByFlush ==
    \A s \in SessionIds, sp \in Speakers :
        Accumulated(s, sp) # <<>> =>
            /\ Accumulated(s, sp)' = <<>> \/ IsPrefix(Accumulated(s, sp), Accumulated(s, sp)')
            /\ \A k \in (Len(transcripts) + 1)..Len(transcripts') :
                  (transcripts'[k].session_id = s /\ transcripts'[k].speaker = sp)
                      => /\ IsPrefix(Accumulated(s, sp), transcripts'[k].text)
                         /\ Accumulated(s, sp)' = <<>>

\* a close_session call that completes leaves no buffer of the session behind
TeardownFlushes ==
    \A s \in SessionIds :
        sb_closed'[s] = sb_closed[s] + 1 => s \notin DOMAIN transcript_buffers'

\* C31: every fragment text accepted into a speaker's buffer is in the end emitted
\* in an utterance or discarded by a flush: when timer tasks whose sleep is over
\* are run, no text stays buffered for ever, and a teardown flushes what remains.
C31_BufferedTextLeaves ==
    BufferedTextLeaves /\ [][LeavesByFlush /\ TeardownFlushes]_vars

\* text is waiting in a buffer whose timer is armed, after an earlier timer of
\* the session has emitted its text
C31_Witness ==
    \E s \in SessionIds, sp \in Speakers :
        /\ Accumulated(s, sp) # <<>>
        /\ Pending(s, sp) # {}
        /\ \E i \in DOMAIN transcripts : transcripts[i].via = "timer"

\* a fragment of stripped length at most 2 without '.', '!' or '?'
Noise(text) ==
    /\ Len(Strip(text)) <= 2
    /\ ~ContainsChar(text, ".") /\ ~ContainsChar(text, "!") /\ ~ContainsChar(text, "?")

\* C33: a fragment whose stripped length is at most 2 and that contains none of
\* '.', '!', '?' is ignored entirely: the buffers, the last-update times and the
\* pending flush timers are left as they were and nothing is emitted.
C33_NoiseIgnored ==
    [][\A u \in 1..MaxUpstream, i \in AggInputs :
          (RecvTranscript(u, i[1], i[2], "row") /\ Noise(i[2]))
              => UNCHANGED <<transcript_buffers, transcript_timers, timer_tasks, transcripts>>]_vars

\* the fragment delivered last wrote no last-update time, and it arrived while
\* text was buffered and its timer pending
C33_Witness ==
    /\ \E s \in DOMAIN transcript_timers : \E sp \in DOMAIN transcript_timers[s] :
          /\ Accumulated(s, sp) # <<>>
          /\ \E t \in timer_tasks : t.id = transcript_timers[s][sp].timer
    /\ \A s \in DOMAIN transcript_timers : \A sp \in DOMAIN transcript_timers[s] :
          transcript_timers[s][sp].last_update < nfrag

FragDone == <<"d", "o", "n", "e", ".">>

\* fragments of one length, so that the characters accepted so far can be
\* counted from the number of fragments: text that waits for its timer and text
\* that ends a sentence
OnceInputs == {<<"input_transcription", FragHello>>, <<"input_transcription", FragDone>>,
               <<"output_transcription", FragHello>>}

OnceLength == Len(NewText(FragHello))

\* one client of session s1, which may create the session again while it is
\* live and closes it by end_session or by disconnecting, fed with the
\* fragments of OnceInputs
OnceNext ==
    \/ WsConnect("h1")
    \/ CreateSessionBegin("h1")
    \/ CreateSessionConnected("h1")
    \/ \E u \in 1..MaxUpstream, i \in OnceInputs : RecvTranscript(u, i[1], i[2], "row")
    \/ \E u \in 1..MaxUpstream : RecvTaskEnds(u)
    \/ \E t \in timer_tasks : TimerFires(t, "row")
    \/ EndSession("h1")
    \/ Disconnect("h1")
    \/ CloseTaskAwaited("h1")
    \/ CloseExitOk("h1")
    \/ CloseExitFails("h1")

SpecOnce == IdleInit /\ [][OnceNext]_vars

\* the characters handed to the transcript sink so far
RECURSIVE HandedChars(_)
HandedChars(rows) ==
    IF rows = <<>> THEN 0 ELSE Len(Head(rows).text) + HandedChars(Tail(rows))

RECURSIVE SumOfLengths(_)
SumOfLengths(S) ==
    IF S = {} THEN 0
    ELSE LET x == CHOOSE y \in S : TRUE
         IN Len(Accumulated(x[1], x[2])) + SumOfLengths(S \ {x})

\* the characters waiting in the buffers
BufferedChars == SumOfLengths(SessionIds \X Speakers)

\* C32: no accepted fragment text is handed to the transcript sink more than
\* once: over immediate flush, timer flush and teardown flush, every buffered
\* character is part of at most one row, so the rows and the buffers together
\* never hold more characters than the fragments delivered.
C32_HandedAtMostOnce ==
    HandedChars(transcripts) + BufferedChars <= nfrag * OnceLength

\* a speaker's text was handed over by an immediate flush or by a timer, and
\* text of the same speaker that arrived later by a teardown
C32_Witness ==
    \E i, j \in DOMAIN transcripts :
        /\ i < j
        /\ transcripts[i].via \in {"immediate", "timer"}
        /\ transcripts[j].via = "session_cleanup"
        /\ transcripts[j].session_id = transcripts[i].session_id
        /\ transcripts[j].speaker = transcripts[i].speaker

(***************************************************************************)
(* Part B.  main.py: SessionManager, LiveAudioBackend, WebSocketAudioLoop  *)
(*                                                                         *)
(* A step is the code a coroutine runs between two awaits that suspend it  *)
(* (websocket receive, the upstream open, an upstream or client send, the  *)
(* gather of cancelled tasks, the upstream close).  SessionManager's       *)
(* coroutines never suspend and run inside the step that calls them.       *)
(***************************************************************************)
RelOther == <<inbVars, outVars, sbVars, clockVars, recv_pc, standalone>>

\* SessionManager.create_session, for a mode found in the prompts
SmCreateSession(s) ==
    /\ cleanup_due' = IF cleanup_due = NoCleanup THEN now + CleanupInterval ELSE cleanup_due
    /\ sm_active_sessions' = DictSet(sm_active_sessions, s, SessionInfo(DefaultMode, now))
    /\ session_locks' = DictSet(session_locks, s, NewLock(session_locks))

SmCloseAll(s) ==
    /\ sm_active_sessions' = EmptyDict
    /\ session_locks' = EmptyDict
    /\ UNCHANGED cleanup_due

\* SessionManager.close_session
SmCloseSession(s) ==
    /\ sm_active_sessions' = DictDel(sm_active_sessions, s)
    /\ session_locks' = DictDel(session_locks, s)
    /\ UNCHANGED cleanup_due

\* task.cancel() for every task of the loop
CancelAll(tasks) ==
    [i \in DOMAIN tasks |-> IF tasks[i] = "running" THEN "cancelled" ELSE tasks[i]]

\* the loop is STREAMING: start() returned and nothing has stopped it
Streaming(l) ==
    /\ loops[l].running
    /\ loops[l].live_session_manager = "open"
    /\ \A i \in DOMAIN loops[l].tasks : loops[l].tasks[i] = "running"

\* websocket_endpoint: accept() and the registration of the connection
Connect(c) ==
    /\ cpc[c] = "init"
    /\ websocket_connections' = DictSet(websocket_connections, ConnSession(c), c)
    /\ cpc' = [cpc EXCEPT ![c] = "recv"]
    /\ UNCHANGED <<sm_active_sessions, session_locks, cleanup_due, audio_loops, loops, c_loop, c_ctx,
                   disc_streaming>>
    /\ UNCHANGED RelOther
    /\ c_last' = [c_last EXCEPT ![c] = Request("connect", FALSE, "session_ready")]

\* _handle_create_session; an unknown mode stores nothing and is answered by an error
HandleCreateSession(c, mode_known) ==
    /\ cpc[c] = "recv"
    /\ IF mode_known
       THEN SmCreateSession(ConnSession(c))
       ELSE UNCHANGED <<sm_active_sessions, session_locks, cleanup_due>>
    /\ UNCHANGED <<websocket_connections, audio_loops, loops, cpc, c_loop, c_ctx,
                   disc_streaming>>
    /\ UNCHANGED RelOther
    /\ c_last' = [c_last EXCEPT ![c] = Request("create_session", ConnSession(c) \in DOMAIN audio_loops,
                                            IF mode_known THEN "session_created" ELSE "error")]

\* _handle_start_audio up to the await of the upstream open inside start()
HandleStartAudio(c) ==
    LET s == ConnSession(c) IN
    /\ cpc[c] = "recv"
    /\ Len(loops) < MaxLoops
    /\ IF s \in DOMAIN audio_loops
       THEN \* "Audio loop already running": return
            UNCHANGED <<loops, cpc, c_loop>>
       ELSE IF s \notin DOMAIN sm_active_sessions
       THEN \* "Session not found"
            UNCHANGED <<loops, cpc, c_loop>>
       ELSE /\ loops' = Append(loops, [NewLoop(s, c) EXCEPT !.live_session_manager = "opening"])
            /\ c_loop' = [c_loop EXCEPT ![c] = Len(loops) + 1]
            /\ cpc' = [cpc EXCEPT ![c] = "start_aenter"]
    /\ UNCHANGED <<sm_active_sessions, session_locks, cleanup_due, websocket_connections, audio_loops,
                   c_ctx, disc_streaming>>
    /\ UNCHANGED RelOther
    /\ c_last' = [c_last EXCEPT ![c] = Request("start_audio", s \in DOMAIN audio_loops,
                                            IF s \notin DOMAIN audio_loops /\ s \notin DOMAIN sm_active_sessions
                                            THEN "error" ELSE "none")]

\* start(): __aenter__ returned the upstream session; the queues are made and the
\* conversation starter is handed to send_client_content
StartConnected(c) ==
    /\ cpc[c] = "start_aenter"
    /\ loops' = [loops EXCEPT ![c_loop[c]].live_session_manager = "open"]
    /\ cpc' = [cpc EXCEPT ![c] = "start_greet"]
    /\ UNCHANGED <<sm_active_sessions, session_locks, cleanup_due, websocket_connections, audio_loops,
                   c_loop, c_ctx, disc_streaming>>
    /\ UNCHANGED RelOther
    /\ UNCHANGED c_last

\* start(): __aenter__ raised; start() re-raises and _handle_start_audio reports it
StartConnectFails(c) ==
    /\ cpc[c] = "start_aenter"
    /\ loops' = [loops EXCEPT ![c_loop[c]].live_session_manager = "failed"]
    /\ cpc' = [cpc EXCEPT ![c] = "recv"]
    /\ c_loop' = [c_loop EXCEPT ![c] = NoLoop]
    /\ UNCHANGED <<sm_active_sessions, session_locks, cleanup_due, websocket_connections, audio_loops,
                   c_ctx, disc_streaming>>
    /\ UNCHANGED RelOther
    /\ c_last' = [c_last EXCEPT ![c].reply = "error"]

\* start(): the starter was sent; running is set, the three tasks are created,
\* start() returns and _handle_start_audio registers the loop
StartGreeted(c) ==
    LET l == c_loop[c] IN
    /\ cpc[c] = "start_greet"
    /\ loops' = [loops EXCEPT ![l] = StartedLoop(@.session_id, @.websocket)]
    /\ audio_loops' = DictSet(audio_loops, ConnSession(c), l)
    /\ cpc' = [cpc EXCEPT ![c] = "recv"]
    /\ c_loop' = [c_loop EXCEPT ![c] = NoLoop]
    /\ UNCHANGED <<sm_active_sessions, session_locks, cleanup_due, websocket_connections, c_ctx,
                   disc_streaming>>
    /\ UNCHANGED RelOther
    /\ c_last' = [c_last EXCEPT ![c].reply = "audio_started"]

\* start(): send_client_content raised; start() re-raises with the upstream
\* connection entered and nothing that exits it
StartGreetFails(c) ==
    /\ cpc[c] = "start_greet"
    /\ cpc' = [cpc EXCEPT ![c] = "recv"]
    /\ c_loop' = [c_loop EXCEPT ![c] = NoLoop]
    /\ UNCHANGED <<sm_active_sessions, session_locks, cleanup_due, websocket_connections, audio_loops,
                   loops, c_ctx, disc_streaming>>
    /\ UNCHANGED RelOther
    /\ c_last' = [c_last EXCEPT ![c].reply = "error"]

\* stop() up to the await of gather: running is cleared, every task is cancelled
StopBegin(c, l, ctx) ==
    /\ loops' = [loops EXCEPT ![l].running = FALSE, ![l].tasks = CancelAll(@)]
    /\ c_loop' = [c_loop EXCEPT ![c] = l]
    /\ c_ctx' = [c_ctx EXCEPT ![c] = ctx]
    /\ cpc' = [cpc EXCEPT ![c] = "stop_gather"]

\* _handle_stop_audio up to the first await of stop()
HandleStopAudio(c) ==
    LET s == ConnSession(c) IN
    /\ cpc[c] = "recv"
    /\ IF s \in DOMAIN audio_loops
       THEN StopBegin(c, audio_loops[s], "msg")
       ELSE UNCHANGED <<loops, c_loop, c_ctx, cpc>>
    /\ UNCHANGED <<sm_active_sessions, session_locks, cleanup_due, websocket_connections, audio_loops,
                   disc_streaming>>
    /\ UNCHANGED RelOther
    /\ UNCHANGED c_last

\* a cancelled task is resumed with CancelledError and ends
TaskEnds(l, i) ==
    /\ l \in DOMAIN loops
    /\ i \in DOMAIN loops[l].tasks
    /\ loops[l].tasks[i] = "cancelled"
    /\ loops' = [loops EXCEPT ![l].tasks[i] = "done"]
    /\ UNCHANGED <<sm_active_sessions, session_locks, cleanup_due, websocket_connections, audio_loops,
                   cpc, c_loop, c_ctx, disc_streaming>>
    /\ UNCHANGED RelOther
    /\ UNCHANGED c_last

\* stop(): gather returned; __aexit__ of the upstream connection is awaited
StopGathered(c) ==
    /\ cpc[c] = "stop_gather"
    /\ \A i \in DOMAIN loops[c_loop[c]].tasks : loops[c_loop[c]].tasks[i] = "done"
    /\ cpc' = [cpc EXCEPT ![c] = "stop_aexit"]
    /\ UNCHANGED <<sm_active_sessions, session_locks, cleanup_due, websocket_connections, audio_loops,
                   loops, c_loop, c_ctx, disc_streaming>>
    /\ UNCHANGED RelOther
    /\ UNCHANGED c_last

\* what the caller of stop() runs once stop() returned:
\*   _handle_stop_audio  del audio_loops[session_id]; a KeyError is caught by
\*                       handle_websocket_message
\*   websocket_endpoint  del audio_loops[session_id], then close_session; a
\*                       KeyError leaves the finally block before close_session
AfterStop(c) ==
    LET s == ConnSession(c) IN
    /\ audio_loops' = DictDel(audio_loops, s)
    /\ c_loop' = [c_loop EXCEPT ![c] = NoLoop]
    /\ IF c_ctx[c] = "msg"
       THEN /\ cpc' = [cpc EXCEPT ![c] = "recv"]
            /\ UNCHANGED <<sm_active_sessions, session_locks, cleanup_due>>
       ELSE /\ cpc' = [cpc EXCEPT ![c] = "closed"]
            /\ IF s \in DOMAIN audio_loops
               THEN SmCloseSession(s)
               ELSE UNCHANGED <<sm_active_sessions, session_locks, cleanup_due>>
    /\ UNCHANGED c_last

\* stop(): __aexit__ returned
StopExited(c) ==
    /\ cpc[c] = "stop_aexit"
    /\ loops' = [loops EXCEPT ![c_loop[c]].live_session_manager = "closed"]
    /\ AfterStop(c)
    /\ UNCHANGED <<websocket_connections, c_ctx, disc_streaming>>
    /\ UNCHANGED RelOther

\* a stop() that lets the exception of __aexit__ through to its caller
StopExitFailsRaises(c) ==
    /\ cpc[c] = "stop_aexit"
    /\ loops' = [loops EXCEPT ![c_loop[c]].live_session_manager = "close_failed"]
    /\ cpc' = [cpc EXCEPT ![c] = "stop_raised"]
    /\ UNCHANGED <<sm_active_sessions, session_locks, cleanup_due, websocket_connections,
                   audio_loops, c_loop, c_ctx, disc_streaming, c_last>>
    /\ UNCHANGED RelOther

\* stop(): __aexit__ raised; the error is printed and stop() returns
StopExitFails(c) ==
    /\ cpc[c] = "stop_aexit"
    /\ loops' = [loops EXCEPT ![c_loop[c]].live_session_manager = "close_failed"]
    /\ AfterStop(c)
    /\ UNCHANGED <<websocket_connections, c_ctx, disc_streaming>>
    /\ UNCHANGED RelOther

\* websocket_endpoint: receive_text raised (the client is gone); the finally block
\* up to its first await
ClientDisconnect(c) ==
    LET s == ConnSession(c) IN
    /\ cpc[c] = "recv"
    /\ websocket_connections' = DictDel(websocket_connections, s)
    /\ disc_streaming' = disc_streaming \cup
                           {l \in DOMAIN loops : loops[l].websocket = c /\ Streaming(l)}
    /\ IF s \in DOMAIN audio_loops
       THEN /\ StopBegin(c, audio_loops[s], "finally")
            /\ UNCHANGED <<sm_active_sessions, session_locks, cleanup_due>>
       ELSE /\ SmCloseSession(s)
            /\ cpc' = [cpc EXCEPT ![c] = "closed"]
            /\ UNCHANGED <<loops, c_loop, c_ctx>>
    /\ UNCHANGED audio_loops
    /\ UNCHANGED RelOther
    /\ UNCHANGED c_last

RelayNext ==
    \/ \E c \in Connections : Connect(c)
    \/ \E c \in Connections, mode_known \in BOOLEAN : HandleCreateSession(c, mode_known)
    \/ \E c \in Connections : HandleStartAudio(c)
    \/ \E c \in Connections : StartConnected(c)
    \/ \E c \in Connections : StartConnectFails(c)
    \/ \E c \in Connections : StartGreeted(c)
    \/ \E c \in Connections : StartGreetFails(c)
    \/ \E c \in Connections : HandleStopAudio(c)
    \/ \E l \in 1..MaxLoops, i \in 1..3 : TaskEnds(l, i)
    \/ \E c \in Connections : StopGathered(c)
    \/ \E c \in Connections : StopExited(c)
    \/ \E c \in Connections : StopExitFails(c)
    \/ \E c \in Connections : ClientDisconnect(c)

SpecRelay == IdleInit /\ [][RelayNext]_vars

\* a streaming relay of session s1 that either connection may stop, by
\* stop_audio or by leaving, also while the other one is inside stop(); audio
\* may be started again afterwards
StopNext ==
    \/ \E c \in Connections : HandleStartAudio(c)
    \/ \E c \in Connections : StartConnected(c)
    \/ \E c \in Connections : StartConnectFails(c)
    \/ \E c \in Connections : StartGreeted(c)
    \/ \E c \in Connections : StartGreetFails(c)
    \/ \E c \in Connections : HandleStopAudio(c)
    \/ \E l \in 1..MaxLoops, i \in 1..3 : TaskEnds(l, i)
    \/ \E c \in Connections : StopGathered(c)
    \/ \E c \in Connections : StopExited(c)
    \/ \E c \in Connections : StopExitFails(c)
    \/ \E c \in Connections : ClientDisconnect(c)

(***************************************************************************)
(* Claims about the relay's life cycle                                     *)
(***************************************************************************)
\* a set of relay tasks of the loop is alive
TasksAlive(l) == \E i \in DOMAIN loops[l].tasks : loops[l].tasks[i] # "done"

LiveLoops(s) == {l \in DOMAIN loops : loops[l].session_id = s /\ TasksAlive(l)}

\* C1: at every point of any interleaving of start_audio, stop_audio and
\* disconnect handling, at most one WebSocketAudioLoop (one set of relay tasks
\* with its upstream connection) is live for a session id.
C1_AtMostOneLiveLoop == \A s \in SessionIds : Cardinality(LiveLoops(s)) <= 1

TornDown(l) ==
    /\ ~TasksAlive(l)
    /\ loops[l].live_session_manager \in {"closed", "close_failed"}
    /\ \A s \in DOMAIN audio_loops : audio_loops[s] # l
    /\ loops[l].session_id \notin DOMAIN sm_active_sessions

\* C2: a relay whose client disconnected while it was STREAMING ends up with its
\* three tasks terminated, its upstream connection closed, itself removed from
\* audio_loops and its session absent from the registry.  Stated on the runs
\* that have come to their end: once every connection has left
\* websocket_endpoint nothing is left that could still tear a relay down.
C2_DisconnectTearsDown ==
    (\A c \in Connections : cpc[c] = "closed") => \A l \in disc_streaming : TornDown(l)

\* C11: a start_audio request for a session id whose relay is already
\* registered in audio_loops is answered with an error message to the
\* connection that sent it.
C11_ActiveStartReportsError ==
    \A c \in Connections :
        (c_last[c].req = "start_audio" /\ c_last[c].active) => c_last[c].reply = "error"

\* C15: a create_session for a session id that is already in the registry is
\* answered with an error and leaves the session's record (mode, creation
\* time) and its lock as they were.
C15_DuplicateCreateRejected ==
    [][\A c \in Connections :
          (HandleCreateSession(c, TRUE) /\ ConnSession(c) \in DOMAIN sm_active_sessions) =>
              /\ sm_active_sessions'[ConnSession(c)] = sm_active_sessions[ConnSession(c)]
              /\ session_locks'[ConnSession(c)] = session_locks[ConnSession(c)]
              /\ c_last'[c].reply = "error"]_vars

\* the two clients connect, create the session and start audio, and any upstream
\* open or greeting may fail; nobody stops or leaves
StartNext ==
    \/ \E c \in Connections : Connect(c)
    \/ \E c \in Connections, mode_known \in BOOLEAN : HandleCreateSession(c, mode_known)
    \/ \E c \in Connections : HandleStartAudio(c)
    \/ \E c \in Connections : StartConnected(c)
    \/ \E c \in Connections : StartConnectFails(c)
    \/ \E c \in Connections : StartGreeted(c)
    \/ \E c \in Connections : StartGreetFails(c)

SpecStart == IdleInit /\ [][StartNext]_vars

\* a loop object something can still call stop() on: it is registered in
\* audio_loops, or a handler holds it in start() or stop()
Held(l) ==
    \/ \E s \in DOMAIN audio_loops : audio_loops[s] = l
    \/ \E c \in Clients : c_loop[c] = l

\* C26: every upstream connection a relay start has opened is closed on every
\* exit path, the failure of start() after the open included: no open connection
\* is left with nothing that can close it.
C26_OpenUpstreamCanBeClosed ==
    \A l \in DOMAIN loops : loops[l].live_session_manager = "open" => Held(l)

\* C17: a relay whose upstream open failed during start is never STREAMING (it
\* is not registered in audio_loops, which is where audio is accepted, it is
\* not running and has no task), and the step in which the open fails sends
\* an error to the client that asked for the start.
C17_FailedOpenNeverStreams ==
    /\ [](\A l \in DOMAIN loops :
            loops[l].live_session_manager = "failed" =>
                /\ ~loops[l].running
                /\ loops[l].tasks = <<>>
                /\ \A s \in DOMAIN audio_loops : audio_loops[s] # l)
    /\ [][\A c \in Connections :
              StartConnectFails(c) =>
                  /\ c_last'[c] = Request("start_audio", FALSE, "error")
                  /\ loops'[c_loop[c]].live_session_manager = "failed"]_vars

\* an upstream open has failed and its client has been told
C17_Witness ==
    \E l \in DOMAIN loops :
        /\ loops[l].live_session_manager = "failed"
        /\ c_last[loops[l].websocket] = Request("start_audio", FALSE, "error")

(***************************************************************************)
(* Session expiry: the cleanup task of SessionManager                      *)
(*                                                                         *)
(* Time is counted in seconds and passes in the steps of ElapseSteps.  The *)
(* cleanup task sleeps CleanupInterval seconds between two sweeps and is   *)
(* started by the first create_session; the event loop runs it when its    *)
(* sleep is over, so time does not pass a due sweep.                       *)
(***************************************************************************)
\* sweeps of the cleanup task in one run; the clock stops at the last one
MaxSweeps == 5

ElapseSteps == {100, 200}

ExpiredLate(info, t) == t - info.created_at > MAX_SESSION_DURATION + CleanupInterval

\* now - session.created_at > max_duration
Expired(info, t) == t - info.created_at > MAX_SESSION_DURATION

\* time passes while every coroutine is suspended
Elapse(d) ==
    /\ now + d <= MaxSweeps * CleanupInterval
    /\ cleanup_due = NoCleanup \/ now + d <= cleanup_due
    /\ now' = now + d
    /\ UNCHANGED <<swept, relVars, inbVars, outVars, sbVars, recv_pc, standalone>>

\* cleanup_expired_sessions: the sleep is over, _cleanup_expired_sessions closes
\* every expired session in the registry, and the task sleeps again
CleanupExpiredSessions ==
    LET expired_sessions == {s \in DOMAIN sm_active_sessions : Expired(sm_active_sessions[s], now)} IN
    /\ cleanup_due # NoCleanup
    /\ now = cleanup_due
    /\ sm_active_sessions' = [s \in DOMAIN sm_active_sessions \ expired_sessions |-> sm_active_sessions[s]]
    /\ session_locks' = [s \in DOMAIN session_locks \ expired_sessions |-> session_locks[s]]
    /\ cleanup_due' = now + CleanupInterval
    /\ swept' = swept \cup expired_sessions
    /\ UNCHANGED <<websocket_connections, audio_loops, loops, cpc, c_loop, c_ctx, disc_streaming,
                   c_last>>
    /\ UNCHANGED <<now, inbVars, outVars, sbVars, recv_pc, standalone>>

\* one client that creates, starts, stops and leaves its session while time passes
ExpiryNext ==
    \/ Connect("c1")
    \/ \E mode_known \in BOOLEAN : HandleCreateSession("c1", mode_known)
    \/ HandleStartAudio("c1")
    \/ StartConnected("c1")
    \/ StartGreeted("c1")
    \/ HandleStopAudio("c1")
    \/ ClientDisconnect("c1")
    \/ \E l \in 1..MaxLoops, i \in 1..3 : TaskEnds(l, i)
    \/ StopGathered("c1")
    \/ StopExited("c1")
    \/ \E d \in ElapseSteps : Elapse(d)
    \/ CleanupExpiredSessions

SpecExpiry == IdleInit /\ [][ExpiryNext]_vars

\* C12 (first half): no session stays in the registry longer than
\* MAX_SESSION_DURATION plus one sleep of the cleanup task.
AgeBounded ==
    \A s \in DOMAIN sm_active_sessions :
        now - sm_active_sessions[s].created_at <= MAX_SESSION_DURATION + CleanupInterval

\* C12 (second half): a create_session for a known mode puts its id into the
\* registry, stamped with the current time, whatever was swept before.
CreateSucceeds ==
    \A c \in Connections :
        HandleCreateSession(c, TRUE) =>
            /\ ConnSession(c) \in DOMAIN sm_active_sessions'
            /\ sm_active_sessions'[ConnSession(c)].created_at = now
            /\ c_last'[c].reply = "session_created"

\* C12: a session whose age has passed MAX_SESSION_DURATION is removed from the
\* registry by the cleanup task within one sweep interval, and a later
\* create_session with the same id succeeds.
C12_ExpiredSwept == []AgeBounded /\ [][CreateSucceeds]_vars

\* a session the cleanup task removed is in the registry again, created anew
C12_Witness ==
    \E s \in swept :
        /\ s \in DOMAIN sm_active_sessions
        /\ sm_active_sessions[s].created_at > MAX_SESSION_DURATION

\* C13: when a step removes a session from the registry, no relay of that
\* session holds an open upstream connection once the step is done: the
\* upstream connection was closed before the entry went.
C13_UpstreamClosedBeforeRemoval ==
    [][\A s \in SessionIds :
          (s \in DOMAIN sm_active_sessions /\ s \notin DOMAIN sm_active_sessions') =>
              \A l \in DOMAIN loops' :
                  loops'[l].session_id = s => loops'[l].live_session_manager # "open"]_vars

\* C28: whenever a session id is absent from the registry, in particular after
\* the cleanup task has removed it, no relay exists for that id: no entry in
\* audio_loops, no live task, no open upstream connection.
C28_AbsentSessionHasNoRelay ==
    \A s \in SessionIds :
        s \notin DOMAIN sm_active_sessions =>
            /\ s \notin DOMAIN audio_loops
            /\ \A l \in DOMAIN loops :
                  loops[l].session_id = s =>
                      /\ ~TasksAlive(l)
                      /\ loops[l].live_session_manager # "open"

(***************************************************************************)
(* Inbound audio: send_audio, _send_realtime, and the servers that forward *)
(* a client's audio without a queue.                                       *)
(*                                                                         *)
(* Audio is kept by position, not by value: batch number id of n bytes is  *)
(* [id, len |-> n], and an upstream message is the slice [id, lo, hi) of   *)
(* its batch.                                                              *)
(***************************************************************************)
\* send_audio calls counted in one run
MaxBatches == 3

\* len(audio_data) of the batches handed to send_audio
BatchLengths == {0, 1024, 2500}

\* payload sizes of the audio a client sends to the direct-forwarding servers
DirectSizes == {512, 2048}

\* the loop whose queues and task locals the model carries
InbLoop == 1

Min(a, b) == IF a < b THEN a ELSE b

SizeOf(m) == m.hi - m.lo

\* a chunker that cuts every slice one byte short
ChunkOneShort(audio_data, i) ==
    [id |-> audio_data.id, lo |-> Min(i, audio_data.len),
     hi |-> Min(i + CHUNK_SIZE - 1, audio_data.len)]

\* chunk = audio_data[i:i + CHUNK_SIZE]
Chunk(audio_data, i) ==
    [id |-> audio_data.id, lo |-> Min(i, audio_data.len),
     hi |-> Min(i + CHUNK_SIZE, audio_data.len)]

InbOther == <<outVars, sbVars, clockVars, recv_pc, standalone>>

\* _handle_audio_data for a payload that decodes to n bytes, and send_audio
SendAudio(c, n) ==
    LET s == ConnSession(c) IN
    /\ cpc[c] = "recv"
    /\ IF s \in DOMAIN audio_loops /\ loops[audio_loops[s]].running
       THEN \* out_queue.put suspends the handler while the queue is full
            /\ Len(out_queue) < OutQueueMaxSize
            /\ out_queue' = Append(out_queue, [id |-> Len(accepted) + 1, len |-> n])
            /\ accepted' = Append(accepted, [id |-> Len(accepted) + 1, len |-> n])
       ELSE \* "Audio session not started", or send_audio returns at once
            UNCHANGED <<out_queue, accepted>>
    /\ UNCHANGED <<sr_pc, sr_msg, sr_i, upstream_sent, standalone_session, send_failed,
                   direct_last>>
    /\ UNCHANGED <<relVars, InbOther>>

\* config.AUDIO_SAMPLE_RATE
AUDIO_SAMPLE_RATE == 16000

\* _process_webm_audio: "if len(audio_portion) < 100"
MinAudioPortion == 100

\* _create_fallback_audio: duration_ms
FallbackDurationMs == 500

\* _create_fallback_audio: a 440 Hz tone of 16-bit samples
FallbackAudio ==
    [content |-> "tone", len |-> ((AUDIO_SAMPLE_RATE * FallbackDurationMs) \div 1000) * 2]

\* _process_webm_audio for n bytes that do not start with the WebM signature:
\* None for fewer than 100 bytes; the samples of an even number of bytes,
\* normalised, otherwise; the fallback tone when that conversion raises
ProcessWebmAudio(n, raises) ==
    IF n < MinAudioPortion THEN [content |-> "None", len |-> 0]
    ELSE IF raises THEN FallbackAudio
    ELSE [content |-> "processed", len |-> n - (n % 2)]

\* the audio_bytes _handle_audio_data passes to send_audio
ForwardedAudio(n, raises) ==
    LET processed_audio == ProcessWebmAudio(n, raises) IN
    IF processed_audio.content # "None" THEN processed_audio
    ELSE [content |-> "client", len |-> n]

\* _handle_audio_data for a payload that decodes to n bytes, with the
\* pre-processing of the payload, and send_audio; the history keeps what the
\* client sent next to what was queued
HandleAudioData(c, n, raises) ==
    LET s == ConnSession(c)
        audio == ForwardedAudio(n, raises)
        id == Len(accepted) + 1
    IN
    /\ cpc[c] = "recv"
    /\ s \in DOMAIN audio_loops /\ loops[audio_loops[s]].running
    /\ Len(out_queue) < OutQueueMaxSize
    /\ out_queue' = Append(out_queue, [id |-> id, len |-> audio.len])
    /\ accepted' = Append(accepted, [id |-> id, len |-> audio.len, content |-> audio.content,
                                     received |-> n,
                                     failed |-> (n < MinAudioPortion \/ raises)])
    /\ UNCHANGED <<sr_pc, sr_msg, sr_i, upstream_sent, standalone_session, send_failed,
                   direct_last>>
    /\ UNCHANGED <<relVars, InbOther>>

\* send_audio with the queue full: "await self.out_queue.put" suspends the
\* handler, which has no timeout and reads no further client message meanwhile
SendAudioBlocks(c) ==
    LET s == ConnSession(c) IN
    /\ cpc[c] = "recv"
    /\ s \in DOMAIN audio_loops /\ loops[audio_loops[s]].running
    /\ Len(out_queue) = OutQueueMaxSize
    /\ cpc' = [cpc EXCEPT ![c] = "put"]
    /\ UNCHANGED <<sm_active_sessions, session_locks, cleanup_due, websocket_connections,
                   audio_loops, loops, c_loop, c_ctx, disc_streaming, c_last>>
    /\ UNCHANGED <<inbVars, InbOther>>

\* the queue has room again: the suspended put completes with its batch of n
\* bytes and the handler goes back to its receive
PutResumes(c, n) ==
    /\ cpc[c] = "put"
    /\ Len(out_queue) < OutQueueMaxSize
    /\ out_queue' = Append(out_queue, [id |-> Len(accepted) + 1, len |-> n])
    /\ accepted' = Append(accepted, [id |-> Len(accepted) + 1, len |-> n])
    /\ cpc' = [cpc EXCEPT ![c] = "recv"]
    /\ UNCHANGED <<sm_active_sessions, session_locks, cleanup_due, websocket_connections,
                   audio_loops, loops, c_loop, c_ctx, disc_streaming, c_last>>
    /\ UNCHANGED <<sr_pc, sr_msg, sr_i, upstream_sent, standalone_session, send_failed,
                   direct_last>>
    /\ UNCHANGED InbOther

\* _send_realtime: out_queue.get returned a batch; the first chunk of a batch
\* that has bytes is handed to send_realtime_input
SendRealtimeGet ==
    LET msg == Head(out_queue) IN
    /\ sr_pc = "get"
    /\ loops[InbLoop].tasks[1] = "running"
    /\ loops[InbLoop].running
    /\ out_queue # <<>>
    /\ out_queue' = Tail(out_queue)
    /\ IF msg.len > 0
       THEN /\ sr_msg' = msg
            /\ sr_i' = 0
            /\ sr_pc' = "send"
       ELSE UNCHANGED <<sr_msg, sr_i, sr_pc>>
    /\ UNCHANGED <<upstream_sent, standalone_session, accepted, send_failed, direct_last>>
    /\ UNCHANGED <<relVars, InbOther>>

\* _send_realtime: send_realtime_input returned; the for loop goes on to the
\* next chunk, or the batch is done
SendRealtimeSent ==
    LET next == sr_i + CHUNK_SIZE IN
    /\ sr_pc = "send"
    /\ loops[InbLoop].tasks[1] = "running"
    /\ upstream_sent' = Append(upstream_sent, Chunk(sr_msg, sr_i))
    /\ IF next < sr_msg.len /\ loops[InbLoop].running
       THEN /\ sr_i' = next
            /\ UNCHANGED <<sr_msg, sr_pc>>
       ELSE /\ sr_i' = 0
            /\ sr_msg' = <<>>
            /\ sr_pc' = "get"
    /\ UNCHANGED <<out_queue, standalone_session, accepted, send_failed, direct_last>>
    /\ UNCHANGED <<relVars, InbOther>>

\* a send failure that ends the task, as the outer handler of the loop does
SendRealtimeFailsEndsTask ==
    /\ sr_pc = "send"
    /\ loops[InbLoop].tasks[1] = "running"
    /\ send_failed' = TRUE
    /\ sr_i' = 0
    /\ sr_msg' = <<>>
    /\ sr_pc' = "get"
    /\ loops' = [loops EXCEPT ![InbLoop].tasks[1] = "done"]
    /\ UNCHANGED <<sm_active_sessions, session_locks, cleanup_due, websocket_connections,
                   audio_loops, cpc, c_loop, c_ctx, disc_streaming, c_last>>
    /\ UNCHANGED <<out_queue, upstream_sent, standalone_session, accepted, direct_last>>
    /\ UNCHANGED InbOther

\* a send loop that skips the slice that failed and goes on with the next one
SendRealtimeFailsGoesOn ==
    LET next == sr_i + CHUNK_SIZE IN
    /\ sr_pc = "send"
    /\ loops[InbLoop].tasks[1] = "running"
    /\ send_failed' = TRUE
    /\ IF next < sr_msg.len /\ loops[InbLoop].running
       THEN /\ sr_i' = next
            /\ UNCHANGED <<sr_msg, sr_pc>>
       ELSE /\ sr_i' = 0
            /\ sr_msg' = <<>>
            /\ sr_pc' = "get"
    /\ UNCHANGED <<out_queue, upstream_sent, standalone_session, accepted, direct_last>>
    /\ UNCHANGED <<relVars, InbOther>>

\* _send_realtime: send_realtime_input raised; the rest of the batch is given up
SendRealtimeFails ==
    /\ sr_pc = "send"
    /\ loops[InbLoop].tasks[1] = "running"
    /\ send_failed' = TRUE
    /\ sr_i' = 0
    /\ sr_msg' = <<>>
    /\ sr_pc' = "get"
    /\ UNCHANGED <<out_queue, upstream_sent, standalone_session, accepted, direct_last>>
    /\ UNCHANGED <<relVars, InbOther>>

\* simple_supabase_backend.py, audio_data message: the decoded payload goes
\* upstream as one Blob
SbAudioData(h, n) ==
    /\ hpc[h] = "recv"
    /\ n > 0
    /\ IF HandlerSession(h) \in DOMAIN gemini_sessions
       THEN direct_last' = [path |-> "audio_data", size |-> n]
       ELSE UNCHANGED direct_last
    /\ UNCHANGED <<out_queue, sr_pc, sr_msg, sr_i, upstream_sent, standalone_session,
                   accepted, send_failed>>
    /\ UNCHANGED <<relVars, InbOther>>

\* simple_supabase_backend.py, audio_data message of a session that has an upstream
\* connection: b64decode or send_realtime_input raises; the except clause awaits
\* send_if_open with an error message for the client
SbAudioDataFails(h) ==
    /\ hpc[h] = "recv"
    /\ HandlerSession(h) \in DOMAIN gemini_sessions
    /\ hpc' = [hpc EXCEPT ![h] = "audio_error"]
    /\ UNCHANGED <<sb_active_sessions, gemini_sessions, sb_upstream, audio_out_queues,
                   sb_queues, send_tasks, audio_streaming_tasks, recv_tasks,
                   sb_websocket_connections, hctx, h_cm, sb_created, sb_closed, nfrag>>
    /\ UNCHANGED AggVars
    /\ UNCHANGED mainVars

\* the error message is on its way (or the send failed and send_if_open swallowed
\* that): the handler is back at its receive
SbErrorSent(h) ==
    /\ hpc[h] = "audio_error"
    /\ hpc' = [hpc EXCEPT ![h] = "recv"]
    /\ UNCHANGED <<sb_active_sessions, gemini_sessions, sb_upstream, audio_out_queues,
                   sb_queues, send_tasks, audio_streaming_tasks, recv_tasks,
                   sb_websocket_connections, hctx, h_cm, sb_created, sb_closed, nfrag>>
    /\ UNCHANGED AggVars
    /\ UNCHANGED mainVars

\* websocket_server.py, handle_client: the upstream connection is entered
StandaloneConnected ==
    /\ standalone_session = "none"
    /\ standalone_session' = "open"
    /\ UNCHANGED <<out_queue, sr_pc, sr_msg, sr_i, upstream_sent, accepted, send_failed,
                   direct_last>>
    /\ UNCHANGED <<relVars, InbOther>>

\* websocket_server.py, handle_websocket_messages: a binary frame, or the payload
\* of a JSON audio_data message, goes upstream as one Blob
StandaloneAudio(path, n) ==
    /\ n > 0
    /\ IF standalone_session = "open"
       THEN direct_last' = [path |-> path, size |-> n]
       ELSE UNCHANGED direct_last
    /\ UNCHANGED <<out_queue, sr_pc, sr_msg, sr_i, upstream_sent, standalone_session,
                   accepted, send_failed>>
    /\ UNCHANGED <<relVars, InbOther>>

StandaloneBinaryFrame(n) == StandaloneAudio("binary_frame", n)

StandaloneJsonAudio(n) == StandaloneAudio("json_audio_data", n)

(***************************************************************************)
(* websocket_server.py: handle_client for one client.  handle_client is    *)
(* suspended at its sleep, at the upstream open, at the send of the        *)
(* initial message, at "await message_handler" and in the exit of the      *)
(* TaskGroup, which waits until both of its tasks are done.                *)
(***************************************************************************)
\* audio responses the model lets wait in audio_out_queue
MaxStandaloneQueue == 2

SaOther == <<relVars, outVars, sbVars, clockVars, recv_pc, out_queue, sr_pc, sr_msg, sr_i,
             upstream_sent, accepted, send_failed, direct_last>>

\* a client connects: handle_client creates the message_handler task and sleeps
SaClientConnects ==
    /\ standalone.pc = "idle"
    /\ standalone' = [standalone EXCEPT !.pc = "sleep", !.client = "open",
                                        !.handler = "running"]
    /\ UNCHANGED <<standalone_session, SaOther>>

\* the client closes the connection: normally (a close frame) or abnormally
SaClientCloses(how) ==
    /\ standalone.client = "open"
    /\ standalone' = [standalone EXCEPT !.client = how]
    /\ UNCHANGED <<standalone_session, SaOther>>

\* handle_websocket_messages: "async for message in websocket" ends when the
\* connection was closed normally and raises ConnectionClosed otherwise
SaHandlerEnds ==
    /\ standalone.handler = "running"
    /\ standalone.client \in {"closed_ok", "closed_error"}
    /\ standalone' = [standalone EXCEPT
                         !.handler = IF standalone.client = "closed_ok" THEN "done"
                                     ELSE "raised"]
    /\ UNCHANGED <<standalone_session, SaOther>>

\* the half second is over: the upstream open is awaited
SaSlept ==
    /\ standalone.pc = "sleep"
    /\ standalone' = [standalone EXCEPT !.pc = "connecting"]
    /\ UNCHANGED <<standalone_session, SaOther>>

\* "async with client.aio.live.connect" entered: the queue is made and the
\* initial message is handed to send_realtime_input
SaConnected ==
    /\ standalone.pc = "connecting"
    /\ standalone_session' = "open"
    /\ standalone' = [standalone EXCEPT !.pc = "greet"]
    /\ UNCHANGED SaOther

\* the upstream open raised: "except Exception as gemini_error" reports it
SaConnectFails ==
    /\ standalone.pc = "connecting"
    /\ standalone' = [standalone EXCEPT !.pc = "done"]
    /\ UNCHANGED <<standalone_session, SaOther>>

\* the initial message was sent: the TaskGroup is entered, its two tasks are
\* created and message_handler is awaited
SaGreeted ==
    /\ standalone.pc = "greet"
    /\ standalone' = [standalone EXCEPT !.pc = "await_handler", !.recv = "running",
                                        !.send = "running"]
    /\ UNCHANGED <<standalone_session, SaOther>>

\* the send of the initial message raised: "async with" exits the upstream
\* connection on the way out
SaGreetFails ==
    /\ standalone.pc = "greet"
    /\ standalone_session' = "closed"
    /\ standalone' = [standalone EXCEPT !.pc = "done"]
    /\ UNCHANGED SaOther

\* "await message_handler" is over.  When it returned, the body of the TaskGroup
\* is done and its exit waits for the two tasks; when it raised, the TaskGroup
\* cancels them first
SaHandlerAwaited ==
    /\ standalone.pc = "await_handler"
    /\ standalone.handler \in {"done", "raised"}
    /\ standalone' =
          IF standalone.handler = "done"
          THEN [standalone EXCEPT !.pc = "tg_exit"]
          ELSE [standalone EXCEPT !.pc = "tg_exit",
                                  !.recv = IF @ = "running" THEN "cancelled" ELSE @,
                                  !.send = IF @ = "running" THEN "cancelled" ELSE @]
    /\ UNCHANGED <<standalone_session, SaOther>>

\* receive_audio_from_gemini: one response with audio data is queued
SaRecvAudio ==
    /\ standalone.recv = "running"
    /\ standalone_session = "open"
    /\ standalone.queue < MaxStandaloneQueue
    /\ standalone' = [standalone EXCEPT !.queue = @ + 1]
    /\ UNCHANGED <<standalone_session, SaOther>>

\* receive_audio_from_gemini: session.receive() raised; the loop breaks
SaRecvFails ==
    /\ standalone.recv = "running"
    /\ standalone' = [standalone EXCEPT !.recv = "done"]
    /\ UNCHANGED <<standalone_session, SaOther>>

\* send_audio_to_websocket: the queue is not empty; the item is taken and sent.
\* The send raises ConnectionClosed when the client is gone, and only that ends
\* the loop: with an empty queue it sleeps 10 ms and tests the queue again
SaSendAudio ==
    /\ standalone.send = "running"
    /\ standalone.queue > 0
    /\ standalone' = [standalone EXCEPT !.queue = @ - 1,
                                        !.send = IF standalone.client = "open"
                                                 THEN "running" ELSE "done"]
    /\ UNCHANGED <<standalone_session, SaOther>>

\* a cancelled task of the TaskGroup is resumed with CancelledError and ends
SaTaskCancelled ==
    /\ \/ standalone.recv = "cancelled" /\ standalone' = [standalone EXCEPT !.recv = "done"]
       \/ standalone.send = "cancelled" /\ standalone' = [standalone EXCEPT !.send = "done"]
    /\ UNCHANGED <<standalone_session, SaOther>>

\* both tasks are done: the TaskGroup exits, "async with" closes the upstream
\* connection and handle_client returns
SaTaskGroupExits ==
    /\ standalone.pc = "tg_exit"
    /\ standalone.recv = "done" /\ standalone.send = "done"
    /\ standalone_session' = "closed"
    /\ standalone' = [standalone EXCEPT !.pc = "done"]
    /\ UNCHANGED SaOther

\* the steps handle_client and its tasks take without a further response from
\* upstream
SaOwnNext ==
    \/ SaHandlerEnds
    \/ SaSlept
    \/ SaConnected
    \/ SaConnectFails
    \/ SaGreeted
    \/ SaGreetFails
    \/ SaHandlerAwaited
    \/ SaSendAudio
    \/ SaTaskCancelled
    \/ SaTaskGroupExits

StandaloneNext ==
    \/ SaOwnNext
    \/ SaClientConnects
    \/ \E how \in {"closed_ok", "closed_error"} : SaClientCloses(how)
    \/ SaRecvAudio
    \/ SaRecvFails

SpecStandalone == IdleInit /\ [][StandaloneNext]_vars

\* C27: after the client connection has closed, handle_client terminates, even if
\* upstream sends nothing more: until it has returned with the upstream connection
\* closed, handle_client or one of its tasks has a step to take that needs no
\* response from upstream.
C27_StandaloneHandlerEnds ==
    standalone.client \in {"closed_ok", "closed_error"} =>
        \/ standalone.pc = "done" /\ standalone_session # "open"
        \/ ENABLED SaOwnNext

\* both clients connected, the session created, c1's start_audio completed
RelStreaming ==
    /\ sm_active_sessions = DictSet(EmptyDict, "s1", SessionInfo(DefaultMode, 0))
    /\ session_locks = DictSet(EmptyDict, "s1", 1)
    /\ cleanup_due = CleanupInterval
    /\ now = 0
    /\ swept = {}
    /\ websocket_connections = DictSet(EmptyDict, "s1", "c2")
    /\ audio_loops = DictSet(EmptyDict, "s1", InbLoop)
    /\ loops = <<StartedLoop("s1", "c1")>>
    /\ cpc = [c \in Clients |-> IF c \in Connections THEN "recv" ELSE "init"]
    /\ c_loop = [c \in Clients |-> NoLoop]
    /\ c_ctx = [c \in Clients |-> "msg"]
    /\ c_last = [c \in Clients |->
                    IF c = "c1" THEN Request("start_audio", FALSE, "audio_started")
                    ELSE IF c = "c2" THEN Request("connect", FALSE, "session_ready")
                    ELSE NoRequest]
    /\ disc_streaming = {}

StreamingInit == SbInit /\ RelStreaming /\ InbInit /\ OutInit

InboundNext ==
    \/ \E c \in Connections, n \in BatchLengths : Len(accepted) < MaxBatches /\ SendAudio(c, n)
    \/ SendRealtimeGet
    \/ SendRealtimeSent
    \/ SendRealtimeFails
    \/ \E c \in Connections : HandleStopAudio(c)
    \/ \E c \in Connections : ClientDisconnect(c)
    \/ \E l \in 1..MaxLoops, i \in 1..3 : TaskEnds(l, i)
    \/ \E c \in Connections : StopGathered(c)
    \/ \E c \in Connections : StopExited(c)
    \/ \E c \in Connections : StopExitFails(c)

SpecInbound == StreamingInit /\ [][InboundNext]_vars

\* the inbound half with at most one upstream send that fails
OneFailureNext ==
    \/ \E c \in Connections, n \in BatchLengths : Len(accepted) < MaxBatches /\ SendAudio(c, n)
    \/ SendRealtimeGet
    \/ SendRealtimeSent
    \/ ~send_failed /\ SendRealtimeFails
    \/ \E c \in Connections : HandleStopAudio(c)
    \/ \E c \in Connections : ClientDisconnect(c)
    \/ \E l \in 1..MaxLoops, i \in 1..3 : TaskEnds(l, i)
    \/ \E c \in Connections : StopGathered(c)
    \/ \E c \in Connections : StopExited(c)
    \/ \E c \in Connections : StopExitFails(c)

SpecOneFailure == StreamingInit /\ [][OneFailureNext]_vars

\* send_audio calls of the run that fills the queue: one more than the queue
\* and the sender together hold
StallBatches == OutQueueMaxSize + 2

\* len(audio_data) of the batches of that run
StallLengths == {1024}

\* the steps that do not wait for the speech service: the handler's and the
\* tasks' own, for the messages client c1 sends
StallOwnNext ==
    \/ \E n \in StallLengths : Len(accepted) < StallBatches /\ SendAudio("c1", n)
    \/ Len(accepted) < StallBatches /\ SendAudioBlocks("c1")
    \/ \E n \in StallLengths : PutResumes("c1", n)
    \/ SendRealtimeGet
    \/ HandleStopAudio("c1")
    \/ ClientDisconnect("c1")
    \/ \E l \in 1..MaxLoops, i \in 1..3 : TaskEnds(l, i)
    \/ StopGathered("c1")
    \/ StopExited("c1")

\* one streaming client and an upstream whose send_realtime_input returns,
\* raises, or does neither
StallNext ==
    \/ StallOwnNext
    \/ SendRealtimeSent
    \/ SendRealtimeFails

SpecStall == StreamingInit /\ [][StallNext]_vars

SpecStop == StreamingInit /\ [][StopNext]_vars

\* C40: the disconnect cleanup of one client connection stops a relay, and
\* removes a websocket registration, only if they belong to that connection:
\* when two connections use one session id, the closing of one does not touch
\* the relay or the registration of the other.
C40_CleanupOwnConnectionOnly ==
    [][\A c \in Connections :
          ClientDisconnect(c) =>
              /\ \A s \in DOMAIN websocket_connections :
                    websocket_connections[s] # c
                        => /\ s \in DOMAIN websocket_connections'
                           /\ websocket_connections'[s] = websocket_connections[s]
              /\ \A l \in DOMAIN loops : loops[l].websocket # c => loops'[l] = loops[l]]_vars

\* payload sizes on both sides of the 100 bytes the pre-processing asks for,
\* one of them odd
PayloadSizes == {60, 1024, 1501}

\* a streaming relay whose client sends audio payloads that are pre-processed
PreprocessNext ==
    \/ \E n \in PayloadSizes, raises \in BOOLEAN :
          Len(accepted) < MaxBatches /\ HandleAudioData("c1", n, raises)
    \/ SendRealtimeGet
    \/ SendRealtimeSent
    \/ ClientDisconnect("c1")
    \/ \E l \in 1..MaxLoops, i \in 1..3 : TaskEnds(l, i)
    \/ StopGathered("c1")
    \/ StopExited("c1")

SpecPreprocess == StreamingInit /\ [][PreprocessNext]_vars

\* C38: when the pre-processing of inbound audio fails (returns nothing or
\* raises), the relay is not aborted and the client's bytes go to the chunker
\* unchanged; pre-processing never puts other content in their place.
C38_FailedPreprocessingForwardsOriginal ==
    \A k \in DOMAIN accepted :
        /\ accepted[k].content # "tone"
        /\ accepted[k].failed =>
              accepted[k].content = "client" /\ accepted[k].len = accepted[k].received

\* stop() has been called on loop l: only stop() clears running once start()
\* has created the tasks
StopCalled(l) == loops[l].tasks # <<>> /\ ~loops[l].running

\* no call of stop() ends with an exception
StopNeverRaises == \A c \in Clients : cpc[c] # "stop_raised"

\* a call of stop() gets to the close of the upstream connection only with
\* running false and every task finished
StoppedAtClose ==
    \A l \in DOMAIN loops :
        (\/ loops[l].live_session_manager \in {"closed", "close_failed"}
         \/ \E c \in Clients : cpc[c] = "stop_aexit" /\ c_loop[c] = l)
            => /\ ~loops[l].running
               /\ \A i \in DOMAIN loops[l].tasks : loops[l].tasks[i] = "done"

\* a stopped loop is not set running again and none of its tasks runs again
StaysStopped ==
    \A l \in DOMAIN loops :
        StopCalled(l) =>
            /\ StopCalled(l)'
            /\ \A i \in DOMAIN loops[l].tasks :
                  /\ loops'[l].tasks[i] # "running"
                  /\ loops[l].tasks[i] = "done" => loops'[l].tasks[i] = "done"

\* C37: stop() may be called any number of times on a relay, also when the
\* upstream connection is closed already or closing it raises: it never raises,
\* and after the first call the relay stays stopped (running is false and every
\* relay task has finished).
C37_StopCallableAgain ==
    [](StopNeverRaises /\ StoppedAtClose) /\ [][StaysStopped]_vars

\* one call of stop() has returned after the close of the upstream connection
\* raised, and a second call on the same relay is about to close it again
C37_Witness ==
    \E c, d \in Connections :
        /\ c # d
        /\ cpc[c] = "stop_aexit"
        /\ loops[c_loop[c]].live_session_manager = "close_failed"
        /\ c_loop[d] = NoLoop
        /\ cpc[d] \in {"recv", "closed"}

DirectNext ==
    \/ \E c \in Connections : accepted = <<>> /\ SendAudio(c, 2500)
    \/ SendRealtimeGet
    \/ SendRealtimeSent
    \/ SendRealtimeFails
    \/ \E h \in Handlers : WsConnect(h)
    \/ \E h \in Handlers : sb_upstream = <<>> /\ CreateSessionBegin(h)
    \/ \E h \in Handlers : CreateSessionConnected(h)
    \/ \E h \in Handlers : CreateSessionFailed(h)
    \/ \E h \in Handlers, n \in DirectSizes : SbAudioData(h, n)
    \/ StandaloneConnected
    \/ \E n \in DirectSizes : StandaloneBinaryFrame(n)
    \/ \E n \in DirectSizes : StandaloneJsonAudio(n)

SpecDirect == StreamingInit /\ [][DirectNext]_vars

\* the simple backend with one client that streams audio frames of its session
SbAudioNext ==
    \/ WsConnect("h1")
    \/ sb_upstream = <<>> /\ CreateSessionBegin("h1")
    \/ CreateSessionConnected("h1")
    \/ CreateSessionFailed("h1")
    \/ \E n \in DirectSizes : SbAudioData("h1", n)
    \/ SbAudioDataFails("h1")
    \/ SbErrorSent("h1")
    \/ \E u \in 1..MaxUpstream : RecvAudio(u)
    \/ \E u \in 1..MaxUpstream, i \in LifeInputs : RecvTranscript(u, i[1], i[2], "row")
    \/ \E t \in timer_tasks : TimerFires(t, "row")
    \/ \E q \in 1..MaxUpstream : SendAudioToWebsocket(q)
    \/ Disconnect("h1")
    \/ CloseTaskAwaited("h1")
    \/ CloseExitOk("h1")
    \/ CloseExitFails("h1")

SpecSbAudio == IdleInit /\ [][SbAudioNext]_vars

(***************************************************************************)
(* Claims about inbound audio                                              *)
(***************************************************************************)
\* the byte string a sequence of slices spells: empty slices dropped, slices
\* that continue one another joined
RECURSIVE Concat(_, _)
Concat(acc, ms) ==
    IF ms = <<>> THEN acc
    ELSE LET m == Head(ms)
             n == Len(acc)
         IN IF m.hi = m.lo THEN Concat(acc, Tail(ms))
            ELSE IF n > 0 /\ acc[n].id = m.id /\ acc[n].hi = m.lo
                 THEN Concat([acc EXCEPT ![n].hi = m.hi], Tail(ms))
                 ELSE Concat(Append(acc, m), Tail(ms))

Bytes(ms) == Concat(<<>>, ms)

Submitted == Bytes([k \in DOMAIN accepted |-> [id |-> accepted[k].id, lo |-> 0, hi |-> accepted[k].len]])

IsBytePrefix(p, q) ==
    /\ Len(p) <= Len(q)
    /\ \A k \in 1..(Len(p) - 1) : p[k] = q[k]
    /\ p # <<>> => /\ p[Len(p)].id = q[Len(p)].id
                   /\ p[Len(p)].lo = q[Len(p)].lo
                   /\ p[Len(p)].hi <= q[Len(p)].hi

\* nothing is queued and _send_realtime is between two batches
Drained == out_queue = <<>> /\ sr_pc = "get"

\* C4: as long as no upstream send fails, what _send_realtime has sent upstream
\* spells a prefix of the concatenation of the batches send_audio accepted, and
\* all of it once the queue is drained; every message has exactly CHUNK_SIZE
\* bytes, but the last message of a batch may be shorter.
C4_UpstreamEqualsSubmitted ==
    ~send_failed =>
        /\ IsBytePrefix(Bytes(upstream_sent), Submitted)
        /\ Drained /\ loops[InbLoop].running => Bytes(upstream_sent) = Submitted
        /\ \A k \in DOMAIN upstream_sent :
              \/ SizeOf(upstream_sent[k]) = CHUNK_SIZE
              \/ /\ SizeOf(upstream_sent[k]) > 0
                 /\ SizeOf(upstream_sent[k]) < CHUNK_SIZE
                 /\ upstream_sent[k].hi = accepted[upstream_sent[k].id].len

\* three batches went through, one of them in three messages the last of which is short
C4_Witness ==
    /\ ~send_failed
    /\ Drained
    /\ loops[InbLoop].running
    /\ Len(accepted) = MaxBatches
    /\ Len(upstream_sent) >= 5
    /\ \E k \in DOMAIN upstream_sent : SizeOf(upstream_sent[k]) < CHUNK_SIZE
    /\ \E k \in DOMAIN upstream_sent : upstream_sent[k].lo = 2 * CHUNK_SIZE

\* the slices of batch b that went upstream, in the order they were sent
SlicesOf(b) == SelectSeq(upstream_sent, LAMBDA m : m.id = b)

\* _send_realtime has taken batch b off the queue and is no longer sending it
LeftBehind(b) ==
    /\ ~(sr_pc = "send" /\ sr_msg.id = b)
    /\ \A k \in DOMAIN out_queue : out_queue[k].id # b

\* every slice continues the one before it, or starts a later batch
SlicesInOrder ==
    \A k \in 1..(Len(upstream_sent) - 1) :
        \/ upstream_sent[k + 1].id = upstream_sent[k].id /\ upstream_sent[k + 1].lo = upstream_sent[k].hi
        \/ upstream_sent[k + 1].id > upstream_sent[k].id /\ upstream_sent[k + 1].lo = 0

\* the failed slice is not sent and its batch is left behind
FailureEndsBatch ==
    SendRealtimeFails =>
        /\ upstream_sent' = upstream_sent
        /\ sr_pc' = "get"
        /\ \A k \in DOMAIN out_queue' : out_queue'[k].id # sr_msg.id

\* nothing more is sent of a batch that was left behind
LeftBehindStays ==
    \A b \in DOMAIN accepted : LeftBehind(b) => SlicesOf(b)' = SlicesOf(b)

\* C35: when sending one slice of a batch upstream fails, the remaining slices
\* of that batch are not sent, the failed slice is not retried, and the slices
\* already sent are neither sent again nor reordered.
C35_FailedSliceEndsBatch ==
    []SlicesInOrder /\ [][FailureEndsBatch /\ LeftBehindStays]_vars

\* a batch went upstream only in part, and a slice of a later batch after it
C35_Witness ==
    /\ send_failed
    /\ \E k \in 1..(Len(upstream_sent) - 1) :
          /\ upstream_sent[k].hi < accepted[upstream_sent[k].id].len
          /\ upstream_sent[k + 1].id > upstream_sent[k].id

\* all of batch b went upstream
SentWhole(b) ==
    \/ accepted[b].len = 0
    \/ Bytes(SlicesOf(b)) = <<[id |-> b, lo |-> 0, hi |-> accepted[b].len]>>

\* the failure step closes nothing and stops nothing
FailureKeepsRelay ==
    SendRealtimeFails =>
        /\ UNCHANGED <<loops, audio_loops, sm_active_sessions, websocket_connections, out_queue>>
        /\ Streaming(InbLoop) => Streaming(InbLoop)'
        /\ sr_pc' = "get"

\* while the relay runs, the batch hit by the failure is the only one that did
\* not go upstream whole
OnlyFailedBatchCut ==
    loops[InbLoop].running =>
        Cardinality({b \in DOMAIN accepted : LeftBehind(b) /\ ~SentWhole(b)})
            <= (IF send_failed THEN 1 ELSE 0)

\* C36: a single failed upstream send does not close the upstream connection or
\* stop the relay: the session stays STREAMING, and the batch queued next is
\* still chunked and sent.
C36_FailedSendKeepsStreaming ==
    []OnlyFailedBatchCut /\ [][FailureKeepsRelay]_vars

\* the relay is still STREAMING after a failed send, and a batch behind the one
\* that failed went upstream whole, in more than one slice
C36_Witness ==
    /\ send_failed
    /\ Streaming(InbLoop)
    /\ \E b, d \in DOMAIN accepted :
          /\ b < d
          /\ LeftBehind(b) /\ ~SentWhole(b)
          /\ LeftBehind(d) /\ SentWhole(d) /\ Len(SlicesOf(d)) > 1

\* C22: once a session is streaming, no failure in processing an audio frame or in
\* sending it upstream makes the server send an error message to the client.
C22_NoErrorWhileStreaming == \A h \in AllHandlers : hpc[h] # "audio_error"

\* C24: an upstream send that hangs does not hold the relay up: while the
\* connection of client c1 is not closed, the handler or a task has a step to take
\* that does not wait for the hung call, so a stop request or a disconnect is
\* still processed and the session ends.
C24_HungSendDoesNotBlock ==
    cpc["c1"] = "closed" \/ ENABLED StallOwnNext

\* C5: every audio message sent upstream, on the queued relay and on the
\* direct-forwarding paths, carries at most CHUNK_SIZE bytes.
C5_UpstreamMessageBounded ==
    /\ \A k \in DOMAIN upstream_sent : SizeOf(upstream_sent[k]) <= CHUNK_SIZE
    /\ direct_last.size <= CHUNK_SIZE

(***************************************************************************)
(* Outbound audio: _receive_audio and _send_audio_to_frontend.             *)
(*                                                                         *)
(* Audio is kept as runs [epoch, n]: n bytes received from upstream after  *)
(* epoch Interrupted events.  A message to the client is the runs it       *)
(* carries, with the number of Interrupted events received when its bytes  *)
(* were taken off audio_buffer for sending.                                *)
(***************************************************************************)
\* audio responses received from upstream in one run
MaxOutChunks == 3

\* Interrupted events received from upstream in one run
MaxInterrupts == 2

\* len(response.data) of the audio responses
OutSizes == {2048, 5000}

\* CHUNK_SIZE * 4, the playback chunk of _send_audio_to_frontend
PlaybackSize == CHUNK_SIZE * 4

\* audio_buffer += chunk; a run is n bytes of the audio response number id,
\* from its byte lo on, received after epoch Interrupted events
BufAppend(buf, chunk) ==
    IF buf # <<>> /\ buf[Len(buf)].epoch = chunk.epoch /\ buf[Len(buf)].id = chunk.id
       /\ buf[Len(buf)].lo + buf[Len(buf)].n = chunk.lo
    THEN [buf EXCEPT ![Len(buf)].n = @ + chunk.n]
    ELSE Append(buf, chunk)

\* len(audio_buffer)
RECURSIVE BufLen(_)
BufLen(buf) == IF buf = <<>> THEN 0 ELSE Head(buf).n + BufLen(Tail(buf))

\* audio_buffer[:k]
RECURSIVE TakeBytes(_, _)
TakeBytes(buf, k) ==
    IF k = 0 \/ buf = <<>> THEN <<>>
    ELSE IF Head(buf).n <= k
         THEN <<Head(buf)>> \o TakeBytes(Tail(buf), k - Head(buf).n)
         ELSE <<[Head(buf) EXCEPT !.n = k]>>

\* a slice that leaves the last byte it was to drop in the buffer
RECURSIVE DropBytesShort(_, _)
DropBytesShort(buf, k) ==
    IF k <= 1 \/ buf = <<>> THEN buf
    ELSE IF Head(buf).n <= k - 1
         THEN DropBytesShort(Tail(buf), k - Head(buf).n)
         ELSE <<[Head(buf) EXCEPT !.n = @ - (k - 1), !.lo = @ + (k - 1)]>> \o Tail(buf)

\* audio_buffer[k:]
RECURSIVE DropBytes(_, _)
DropBytes(buf, k) ==
    IF k = 0 \/ buf = <<>> THEN buf
    ELSE IF Head(buf).n <= k
         THEN DropBytes(Tail(buf), k - Head(buf).n)
         ELSE <<[Head(buf) EXCEPT !.n = @ - k, !.lo = @ + k]>> \o Tail(buf)

\* a sender that does not wait for a whole playback chunk
PlaybackReadyAnyBytes(buf) == BufLen(buf) > 0

\* while len(audio_buffer) >= CHUNK_SIZE * 4
PlaybackReady(buf) == BufLen(buf) >= PlaybackSize

OutOther == <<relVars, inbVars, sbVars, clockVars, recv_pc, standalone>>

\* _receive_audio is inside "async for response in turn"
ReceiveRuns ==
    /\ loops[InbLoop].tasks[2] = "running"
    /\ loops[InbLoop].running
    /\ recv_pc \in {"receiving", "again"}

FrontendRuns == loops[InbLoop].tasks[3] = "running" /\ loops[InbLoop].running

\* _receive_audio: a response with audio data, the arrivals of a run counted
\* up to max; put_nowait on the unbounded audio_in_queue always succeeds
ReceiveAudio(n, max) ==
    /\ ReceiveRuns
    /\ nout < max
    /\ nout' = nout + 1
    /\ audio_in_queue' = Append(audio_in_queue, [epoch |-> epoch, id |-> nout + 1, lo |-> 0, n |-> n])
    /\ UNCHANGED <<fe_pc, audio_buffer, playback_chunk, client_msgs, epoch>>
    /\ UNCHANGED OutOther

ReceiveAudioData(n) == ReceiveAudio(n, MaxOutChunks)

\* _receive_audio: a response that reports the interruption of the model; it has
\* neither data nor text and the loop body does nothing with it
ReceiveInterrupted ==
    /\ ReceiveRuns
    /\ epoch < MaxInterrupts
    /\ epoch' = epoch + 1
    /\ UNCHANGED <<audio_in_queue, fe_pc, audio_buffer, playback_chunk, client_msgs, nout>>
    /\ UNCHANGED OutOther

\* _receive_audio: a response with text and no audio data; a TranscriptEntry
\* with this text is handed to supabase_client.add_transcript_entry, which
\* inserts it into the transcripts table
ReceiveText(text) ==
    /\ ReceiveRuns
    /\ nfrag < MaxFragments
    /\ nfrag' = nfrag + 1
    /\ transcripts' = AddTranscript(transcripts, loops[InbLoop].session_id, "Assistant", text,
                                    "live_api", "receive_task", text, "row")
    /\ UNCHANGED <<sb_active_sessions, gemini_sessions, sb_upstream, audio_out_queues,
                   sb_queues, send_tasks, audio_streaming_tasks, recv_tasks,
                   transcript_buffers, transcript_timers, timer_tasks, timer_seq,
                   sb_websocket_connections, hpc, hctx, h_cm, raw_buffers, sb_created,
                   sb_closed>>
    /\ UNCHANGED <<outVars, mainVars>>

\* _receive_audio: the turn's iterator is exhausted; audio_in_queue is emptied
ReceiveTurnEnds ==
    /\ ReceiveRuns
    /\ audio_in_queue' = <<>>
    /\ UNCHANGED <<fe_pc, audio_buffer, playback_chunk, client_msgs, epoch, nout>>
    /\ UNCHANGED OutOther

\* _receive_audio: session.receive() or the iteration of its turn raised while
\* the loop is running; the handler prints the error and sleeps one second
ReceiveFails ==
    /\ ReceiveRuns
    /\ recv_pc' = "sleeping"
    /\ UNCHANGED <<outVars, relVars, inbVars, sbVars, clockVars, standalone>>

\* _receive_audio: the sleep is over; "continue" re-enters the while loop, which
\* calls self.session.receive() on the same upstream session and iterates it
ReceiveRetry ==
    /\ recv_pc = "sleeping"
    /\ loops[InbLoop].tasks[2] = "running"
    /\ loops[InbLoop].running
    /\ recv_pc' = "again"
    /\ UNCHANGED <<outVars, relVars, inbVars, sbVars, clockVars, standalone>>

\* the playback chunk is cut off audio_buffer and handed to websocket.send_text
CutPlaybackChunk(buf) ==
    /\ playback_chunk' = [runs |-> TakeBytes(buf, PlaybackSize), at |-> epoch]
    /\ audio_buffer' = DropBytes(buf, PlaybackSize)
    /\ fe_pc' = "send"

\* _send_audio_to_frontend: audio_in_queue.get returned a chunk
FrontendGet ==
    LET buf == BufAppend(audio_buffer, Head(audio_in_queue)) IN
    /\ fe_pc = "get"
    /\ FrontendRuns
    /\ audio_in_queue # <<>>
    /\ audio_in_queue' = Tail(audio_in_queue)
    /\ IF PlaybackReady(buf)
       THEN CutPlaybackChunk(buf)
       ELSE /\ audio_buffer' = buf
            /\ UNCHANGED <<playback_chunk, fe_pc>>
    /\ UNCHANGED <<client_msgs, epoch, nout>>
    /\ UNCHANGED OutOther

\* _send_audio_to_frontend: send_text of a playback chunk returned
FrontendSent ==
    /\ fe_pc = "send"
    /\ FrontendRuns
    /\ client_msgs' = Append(client_msgs, [runs |-> playback_chunk.runs,
                                           at |-> playback_chunk.at, via |-> "playback"])
    /\ IF PlaybackReady(audio_buffer)
       THEN CutPlaybackChunk(audio_buffer)
       ELSE /\ playback_chunk' = NoChunk
            /\ fe_pc' = "get"
            /\ UNCHANGED audio_buffer
    /\ UNCHANGED <<audio_in_queue, epoch, nout>>
    /\ UNCHANGED OutOther

\* _send_audio_to_frontend: send_text of a playback chunk raised; the inner
\* while is left with the rest of audio_buffer kept
FrontendSendFails ==
    /\ fe_pc = "send"
    /\ FrontendRuns
    /\ playback_chunk' = NoChunk
    /\ fe_pc' = "get"
    /\ UNCHANGED <<audio_in_queue, audio_buffer, client_msgs, epoch, nout>>
    /\ UNCHANGED OutOther

\* _send_audio_to_frontend: nothing arrived for one second and audio_buffer
\* holds bytes; all of it is handed to websocket.send_text
FrontendTimeout ==
    /\ fe_pc = "get"
    /\ FrontendRuns
    /\ audio_in_queue = <<>>
    /\ audio_buffer # <<>>
    /\ playback_chunk' = [runs |-> audio_buffer, at |-> epoch]
    /\ fe_pc' = "flush"
    /\ UNCHANGED <<audio_in_queue, audio_buffer, client_msgs, epoch, nout>>
    /\ UNCHANGED OutOther

\* _send_audio_to_frontend: send_text of the flush returned
FrontendFlushed ==
    /\ fe_pc = "flush"
    /\ FrontendRuns
    /\ client_msgs' = Append(client_msgs, [runs |-> playback_chunk.runs,
                                           at |-> playback_chunk.at, via |-> "timeout"])
    /\ audio_buffer' = <<>>
    /\ playback_chunk' = NoChunk
    /\ fe_pc' = "get"
    /\ UNCHANGED <<audio_in_queue, epoch, nout>>
    /\ UNCHANGED OutOther

\* _send_audio_to_frontend: send_text of the flush raised; the task leaves its loop
FrontendFlushFails ==
    /\ fe_pc = "flush"
    /\ FrontendRuns
    /\ loops' = [loops EXCEPT ![InbLoop].tasks[3] = "done"]
    /\ playback_chunk' = NoChunk
    /\ fe_pc' = "done"
    /\ UNCHANGED <<audio_in_queue, audio_buffer, client_msgs, epoch, nout>>
    /\ UNCHANGED <<sm_active_sessions, session_locks, cleanup_due, websocket_connections, audio_loops,
                   cpc, c_loop, c_ctx, c_last, disc_streaming>>
    /\ UNCHANGED <<inbVars, sbVars, clockVars, recv_pc, standalone>>

OutboundNext ==
    \/ \E n \in OutSizes : ReceiveAudioData(n)
    \/ ReceiveInterrupted
    \/ ReceiveTurnEnds
    \/ FrontendGet
    \/ FrontendSent
    \/ FrontendSendFails
    \/ FrontendTimeout
    \/ FrontendFlushed
    \/ FrontendFlushFails

SpecOutbound == StreamingInit /\ [][OutboundNext]_vars

\* audio responses that arrive in one run of SpecReceive: one more than the
\* only queue size the relay configures
BacklogChunks == OutQueueMaxSize + 1

\* a streaming relay that receives chunks of one playback chunk each and whose
\* upstream receive may fail, until its client leaves
ReceiveNext ==
    \/ ReceiveAudio(PlaybackSize, BacklogChunks)
    \/ ReceiveTurnEnds
    \/ ReceiveFails
    \/ ReceiveRetry
    \/ FrontendGet
    \/ FrontendSent
    \/ ClientDisconnect("c1")
    \/ \E l \in 1..MaxLoops, i \in 1..3 : TaskEnds(l, i)
    \/ StopGathered("c1")
    \/ StopExited("c1")

SpecReceive == StreamingInit /\ [][ReceiveNext]_vars

\* a streaming relay whose upstream answers with audio and with the text
\* fragments of one sentence, until its client leaves
TextNext ==
    \/ ReceiveAudioData(PlaybackSize)
    \/ \E text \in {FragITh, FragInkThe, FragAnswer} : ReceiveText(text)
    \/ ReceiveTurnEnds
    \/ FrontendGet
    \/ FrontendSent
    \/ ClientDisconnect("c1")
    \/ \E l \in 1..MaxLoops, i \in 1..3 : TaskEnds(l, i)
    \/ StopGathered("c1")
    \/ StopExited("c1")

SpecText == StreamingInit /\ [][TextNext]_vars

\* C34: transcript text received from upstream reaches the transcript sink only
\* as utterances produced by a flush of the aggregator; no receive task of a
\* relay persists an upstream text fragment itself.
C34_SinkFedByAggregatorOnly ==
    \A i \in DOMAIN transcripts :
        transcripts[i].via \in {"immediate", "timer", "session_cleanup"}

\* a streaming relay that moves audio in either direction; the traffic of one
\* run goes one way (the two directions share neither queue nor buffer)
DuplexNext ==
    \/ \E c \in Connections, n \in BatchLengths :
          nout = 0 /\ Len(accepted) < MaxBatches /\ SendAudio(c, n)
    \/ SendRealtimeGet
    \/ SendRealtimeSent
    \/ SendRealtimeFails
    \/ \E n \in OutSizes : accepted = <<>> /\ ReceiveAudioData(n)
    \/ accepted = <<>> /\ ReceiveInterrupted
    \/ ReceiveTurnEnds
    \/ FrontendGet
    \/ FrontendSent
    \/ FrontendSendFails
    \/ FrontendTimeout
    \/ FrontendFlushed
    \/ FrontendFlushFails

SpecDuplex == StreamingInit /\ [][DuplexNext]_vars

\* the runs of all messages sent to the client, in the order of sending
RECURSIVE Delivered(_)
Delivered(msgs) == IF msgs = <<>> THEN <<>> ELSE Head(msgs).runs \o Delivered(Tail(msgs))

\* C18: within each direction bytes arrive in the order they were handed in,
\* none of them twice: of two slices sent upstream the later one lies behind
\* the earlier one in the client's batches, and of two runs sent to the client
\* the later one lies behind the earlier one in the upstream responses.
C18_InOrderNoDuplicates ==
    /\ \A i, j \in DOMAIN upstream_sent :
          i < j => \/ upstream_sent[i].id < upstream_sent[j].id
                   \/ /\ upstream_sent[i].id = upstream_sent[j].id
                      /\ upstream_sent[i].hi <= upstream_sent[j].lo
    /\ LET d == Delivered(client_msgs) IN
          \A i, j \in DOMAIN d :
              i < j => \/ d[i].id < d[j].id
                       \/ d[i].id = d[j].id /\ d[i].lo + d[i].n <= d[j].lo

\* three responses reached the client, one of them split over two messages
C18_Witness ==
    /\ \E i \in DOMAIN client_msgs : \E r \in DOMAIN client_msgs[i].runs : client_msgs[i].runs[r].id = MaxOutChunks
    /\ \E i, j \in DOMAIN client_msgs :
          /\ i < j
          /\ \E r \in DOMAIN client_msgs[i].runs, q \in DOMAIN client_msgs[j].runs :
                 client_msgs[i].runs[r].id = client_msgs[j].runs[q].id

(***************************************************************************)
(* Two sessions side by side                                               *)
(***************************************************************************)
\* sessions s1 and s2, each with its own client, on one of the two servers: a
\* run is of the simple backend (h1, h2) or of LiveAudioBackend (c1, c3)
IsolationNext ==
    \/ \E h \in AllHandlers \ {"d1"} : (\A c \in Clients : cpc[c] = "init") /\ WsConnect(h)
    \/ \E h \in AllHandlers \ {"d1"} : CreateSessionBegin(h)
    \/ \E h \in AllHandlers \ {"d1"} : CreateSessionConnected(h)
    \/ \E u \in 1..MaxUpstream, i \in LifeInputs : RecvTranscript(u, i[1], i[2], "row")
    \/ \E t \in timer_tasks : TimerFires(t, "row")
    \/ \E h \in AllHandlers \ {"d1"} : Disconnect(h)
    \/ \E h \in AllHandlers \ {"d1"} : CloseTaskAwaited(h)
    \/ \E h \in AllHandlers \ {"d1"} : CloseExitOk(h)
    \/ \E h \in AllHandlers \ {"d1"} : CloseExitFails(h)
    \/ \E c \in Clients \ {"c2"} : (\A h \in AllHandlers : hpc[h] = "init") /\ Connect(c)
    \/ \E c \in Clients \ {"c2"} : HandleCreateSession(c, TRUE)
    \/ \E c \in Clients \ {"c2"} : HandleStartAudio(c)
    \/ \E c \in Clients \ {"c2"} : StartConnected(c)
    \/ \E c \in Clients \ {"c2"} : StartGreeted(c)
    \/ \E l \in 1..MaxLoops, i \in 1..3 : TaskEnds(l, i)
    \/ \E c \in Clients \ {"c2"} : StopGathered(c)
    \/ \E c \in Clients \ {"c2"} : StopExited(c)
    \/ \E c \in Clients \ {"c2"} : ClientDisconnect(c)

SpecIsolation == IdleInit /\ [][IsolationNext]_vars

\* d.get(k), as a sequence of no or one value
Entry(d, k) == IF k \in DOMAIN d THEN <<d[k]>> ELSE <<>>

\* all that either server holds for session s: its entries in every table and
\* the objects made for it (upstream connections, queues, tasks, relays,
\* transcript buffers and their timers)
SessionView(s) ==
    [sb_active |-> s \in sb_active_sessions,
     sb_websocket |-> s \in sb_websocket_connections,
     gemini_session |-> Entry(gemini_sessions, s),
     audio_out_queue |-> Entry(audio_out_queues, s),
     audio_streaming_task |-> Entry(audio_streaming_tasks, s),
     upstreams |-> [u \in {v \in DOMAIN recv_tasks : recv_tasks[v].session_id = s} |->
                      <<sb_upstream[u], sb_queues[u], send_tasks[u], recv_tasks[u]>>],
     transcript_buffer |-> Entry(transcript_buffers, s),
     transcript_timer |-> Entry(transcript_timers, s),
     timers |-> {t \in timer_tasks : t.session_id = s},
     session_info |-> Entry(sm_active_sessions, s),
     session_lock |-> Entry(session_locks, s),
     websocket |-> Entry(websocket_connections, s),
     audio_loop |-> Entry(audio_loops, s),
     relays |-> [l \in {k \in DOMAIN loops : loops[k].session_id = s} |-> loops[l]]]

\* a step of the teardown of session a, the close of its upstream connection
\* failing or not
TeardownStep(a) ==
    \/ \E h \in AllHandlers :
          /\ HandlerSession(h) = a
          /\ \/ Disconnect(h) \/ CloseTaskAwaited(h) \/ CloseExitOk(h) \/ CloseExitFails(h)
    \/ \E c \in Clients :
          /\ ConnSession(c) = a
          /\ ClientDisconnect(c) \/ StopGathered(c) \/ StopExited(c)

C14_NoReceiveAfterFailure == recv_pc # "again"

\* C16: the queue of audio on its way to the client never holds more chunks
\* than the queue bound the relay configures.
C16_ClientQueueBounded == Len(audio_in_queue) <= OutQueueMaxSize

(***************************************************************************)
(* Claims about outbound audio                                             *)
(***************************************************************************)
MsgSize(m) == BufLen(m.runs)

\* C3: once an Interrupted event has been processed, no audio chunk received
\* before it waits in the outbound queue, and no byte received before it is in
\* a message handed to the client after it.
C3_InterruptionDropsStaleAudio ==
    /\ \A k \in DOMAIN audio_in_queue : audio_in_queue[k].epoch = epoch
    /\ \A k \in DOMAIN client_msgs :
          \A r \in DOMAIN client_msgs[k].runs : client_msgs[k].runs[r].epoch >= client_msgs[k].at

\* C39: audio received from upstream and queued for the client is discarded
\* only on an interruption or at teardown: a step that empties the queue without
\* the frontend task taking the audio happens only when an Interrupted event has
\* arrived since some of that audio was received, or when the relay is stopped;
\* the audio of a turn that completes without interruption is delivered.
C39_AudioDiscardedOnlyOnInterruption ==
    [][(audio_in_queue # <<>> /\ audio_in_queue' = <<>> /\ audio_buffer' = audio_buffer)
          => \/ \E k \in DOMAIN audio_in_queue : audio_in_queue[k].epoch < epoch
             \/ ~loops'[InbLoop].running]_vars

\* C6: every audio_chunk message that is not the flush of the idle timeout
\* carries at least CHUNK_SIZE * 4 bytes.
C6_PlaybackChunksFull ==
    \A k \in DOMAIN client_msgs :
        client_msgs[k].via # "timeout" => MsgSize(client_msgs[k]) >= CHUNK_SIZE * 4

\* audio arrived without an idle timeout: playback chunks were sent and a
\* remainder shorter than a playback chunk waits in audio_buffer
C6_Witness ==
    /\ Len(client_msgs) >= 2
    /\ \A k \in DOMAIN client_msgs : client_msgs[k].via = "playback"
    /\ audio_buffer # <<>>
    /\ BufLen(audio_buffer) < CHUNK_SIZE * 4
    /\ fe_pc = "get"

====
